---- MODULE Spec2Model ----
(***************************************************************************)
(* d'sis Catering: the two backends (the JSON-file server of               *)
(* backend/server.js, the SQLite routes under backend/routes) and the      *)
(* browser-side ReceiptSystem, as one state machine.                       *)
(*                                                                         *)
(* Conventions.                                                            *)
(*  - Each HTTP handler is one action; `res` holds the response it sent    *)
(*    (route, status, the parts of the body the properties read) and, for  *)
(*    the registrations and the reads, the request it served.              *)
(*  - A request field that is absent (undefined) or the empty string is    *)
(*    the value Missing; both are falsy in the handlers' `!field` tests.   *)
(*  - Money is counted in centavos (a catalog price of 500 pesos is        *)
(*    50000), so that 12% of a whole-peso amount is an integer; the tax    *)
(*    rate 0.12 is held as the percentage 12.                              *)
(*  - `now` is Date.now() as an offset in milliseconds from an epoch whose *)
(*    last six decimal digits are 0.                                       *)
(*  - A deployment runs one backend; `backend` records which one.          *)
(***************************************************************************)
EXTENDS Integers, Sequences, FiniteSets, TLC

VARIABLES
    backend,          \* "file" (server.js) or "sql" (routes/*)
    now,              \* Date.now()
    res,              \* the last request and its response
    fUsers,           \* data/users.json
    fBookings,        \* data/bookings.json
    fReceipts,        \* data/receipts.json
    users,            \* table users
    menu_items,       \* table menu_items
    bookings,         \* table bookings
    booking_items,    \* table booking_items
    receipts,         \* table receipts
    lastID,           \* last rowid handed out, per table
    cReceipts,        \* localStorage 'dsis_receipts'
    nextReceiptNumber, \* ReceiptSystem.nextReceiptNumber
    cIssued,          \* the numbers generateReceiptNumber() has returned since the page loaded
    fMessages,        \* data/messages.json
    messages,         \* table admin_messages
    diskWritable,     \* whether fs.writeFileSync succeeds
    insertItemQueue,  \* insertItem.run calls queued on the database, not yet executed
    deleting,         \* bookings whose lines DELETE has run and whose row DELETE is queued
    dash,             \* the dashboard request in flight: its closure variables
    inFlight,         \* file-backed requests that have read their file and not yet written
    cAuth,            \* AuthSystem.currentUser, APIClient.token and the two localStorage keys
    fOffers           \* data/offers.json

fileVars == <<fUsers, fBookings, fReceipts>>
sqlVars == <<users, menu_items, bookings, booking_items, receipts, lastID>>
clientVars == <<cReceipts, nextReceiptNumber, cIssued>>
msgVars == <<fMessages, messages>>
ioVars == <<diskWritable, insertItemQueue, deleting>>
extVars == <<dash, inFlight, cAuth, fOffers>>
vars == <<backend, now, res, fUsers, fBookings, fReceipts, users, menu_items,
          bookings, booking_items, receipts, lastID, cReceipts, nextReceiptNumber, cIssued,
          fMessages, messages, diskWritable, insertItemQueue, deleting, dash, inFlight,
          cAuth, fOffers>>

(***************************************************************************)
(* Bounds of the model.                                                    *)
(***************************************************************************)
MaxUsers == 4
MaxBookings == 2
MaxReceipts == 2
MaxLines == 2
MaxMenu == 2
MaxTicks == 2
MaxMessages == 2
MaxOfferId == 3

(***************************************************************************)
(* Values shared by the handlers.                                          *)
(***************************************************************************)
Missing == ""

Peso(n) == n * 100

BookingStatuses == {"pending", "confirmed", "cancelled", "completed"}
PaymentStatuses == {"pending", "paid", "failed", "refunded"}

RECURSIVE SumTotalPrice(_)
SumTotalPrice(lines) ==
    IF lines = <<>> THEN 0
    ELSE Head(lines).totalPrice + SumTotalPrice(Tail(lines))

MinPasswordLength == 6

TaxRatePct == 12

TaxOf(subtotal) == (subtotal * TaxRatePct) \div 100

(***************************************************************************)
(* backend/server.js: the JSON-file server.                                *)
(***************************************************************************)
sampleUsers ==
    << [id |-> 1, username |-> "admin", email |-> "admin@dsis.com",
        password |-> "admin123", firstName |-> "Admin", lastName |-> "User",
        phoneNumber |-> Missing, userType |-> "admin"],
       [id |-> 2, username |-> "customer", email |-> "customer@test.com",
        password |-> "customer123", firstName |-> "John", lastName |-> "Doe",
        phoneNumber |-> Missing, userType |-> "customer"] >>

sampleMenu ==
    << [id |-> 1, itemName |-> "Lechon", pricePerServing |-> Peso(500), isAvailable |-> TRUE],
       [id |-> 2, itemName |-> "Chicken Cordon Bleu", pricePerServing |-> Peso(350), isAvailable |-> TRUE],
       [id |-> 3, itemName |-> "Lasagna", pricePerServing |-> Peso(300), isAvailable |-> TRUE],
       [id |-> 4, itemName |-> "Shanghai Rolls", pricePerServing |-> Peso(200), isAvailable |-> TRUE],
       [id |-> 5, itemName |-> "Fruit Salad", pricePerServing |-> Peso(150), isAvailable |-> TRUE],
       [id |-> 6, itemName |-> "Rice", pricePerServing |-> Peso(50), isAvailable |-> TRUE],
       [id |-> 7, itemName |-> "Soft Drinks", pricePerServing |-> Peso(30), isAvailable |-> TRUE],
       [id |-> 8, itemName |-> "Cucumber Juice", pricePerServing |-> Peso(80), isAvailable |-> TRUE] >>

\* email.split('@')[0], on the addresses the model's requests use
LocalPart(email) ==
    CASE email = "admin@dsis.com" -> "admin"
      [] email = "customer@test.com" -> "customer"
      [] email = "ann@x.com" -> "ann"
      [] email = "ann@y.com" -> "ann"
      [] email = "Ann@x.com" -> "Ann"
      [] email = "bob@x.com" -> "bob"
      [] OTHER -> email

\* array.some(pred) / array.find(pred) over a stored array
Range(seq) == { seq[i] : i \in DOMAIN seq }

\* a faulty variant: the write never reaches the file
writeDataSkipped(stored, data) == stored

\* writeData(filename, data): what the file holds afterwards.  writeFileSync
\* throws when the file cannot be written (a read-only or full disk, a lost
\* permission); writeData catches that and returns false, and the file keeps
\* what it held.
writeData(stored, data) == IF diskWritable THEN data ELSE stored

\* POST /api/auth/register: the status the handler answers with
FileRegisterStatus(stored, req) ==
    IF \/ req.firstName = Missing \/ req.lastName = Missing \/ req.email = Missing
       \/ req.password = Missing \/ req.repeatPassword = Missing
    THEN 400
    ELSE IF req.password # req.repeatPassword THEN 400
    ELSE IF Len(req.password) < MinPasswordLength THEN 400
    ELSE IF \E u \in Range(stored) : u.email = req.email THEN 409
    ELSE 201

\* a faulty variant: the role is taken from the request body
FileNewUserWithRequestedRole(stored, req) ==
    [id |-> Len(stored) + 1, username |-> LocalPart(req.email), email |-> req.email,
     password |-> req.password, firstName |-> req.firstName, lastName |-> req.lastName,
     phoneNumber |-> req.mobileNumber, userType |-> req.userType]

\* const newUser = {...}, lines 221-231
FileNewUser(stored, req) ==
    [id |-> Len(stored) + 1, username |-> LocalPart(req.email), email |-> req.email,
     password |-> req.password, firstName |-> req.firstName, lastName |-> req.lastName,
     phoneNumber |-> req.mobileNumber, userType |-> "customer"]

FileRegister(req) ==
    /\ backend = "file"
    /\ LET status == FileRegisterStatus(fUsers, req) IN
        /\ status = 201 => Len(fUsers) < MaxUsers
        /\ fUsers' = IF status = 201
                     THEN writeData(fUsers, Append(fUsers, FileNewUser(fUsers, req)))
                     ELSE fUsers
        /\ res' = [op |-> "POST /api/auth/register",
                   status |-> IF status = 201 /\ ~diskWritable THEN 500 ELSE status,
                   req |-> req, body |-> {}]
    /\ UNCHANGED <<backend, now, fBookings, fReceipts, sqlVars, clientVars, msgVars, ioVars,
                   extVars>>

\* const { password: _, ...userWithoutPassword } = user
WithoutField(record, field) == [k \in DOMAIN record \ {field} |-> record[k]]

\* users.find(u => u.email === email && u.password === password)
FileLoginMatches(stored, req) ==
    { u \in Range(stored) : u.email = req.email /\ u.password = req.password }

\* POST /api/auth/login: the status the handler answers with
FileLoginStatus(stored, req) ==
    IF req.email = Missing \/ req.password = Missing THEN 400
    ELSE IF FileLoginMatches(stored, req) = {} THEN 401
    ELSE 200

\* POST /api/auth/login: the answer carries the user and no token
FileLogin(req) ==
    /\ backend = "file"
    /\ LET status == FileLoginStatus(fUsers, req) IN
        res' = [op |-> "POST /api/auth/login", status |-> status, req |-> req,
                body |-> IF status = 200
                         THEN { [user |-> WithoutField(u, "password")] :
                                u \in FileLoginMatches(fUsers, req) }
                         ELSE {}]
    /\ UNCHANGED <<backend, now, fileVars, sqlVars, clientVars, msgVars, ioVars, extVars>>

\* users.findIndex(u => u.email === currentEmail): 0 when no user has it
FileUserIndex(stored, email) ==
    IF \E i \in DOMAIN stored : stored[i].email = email
    THEN CHOOSE i \in DOMAIN stored :
            stored[i].email = email /\ \A j \in 1..(i - 1) : stored[j].email # email
    ELSE 0

\* PUT /api/auth/profile: the status the handler answers with.  currentEmail
\* and newEmail are both req.body.email, so the branch that changes the
\* email is never taken.
FileUpdateProfileStatus(stored, req) ==
    LET currentEmail == req.email
        newEmail == req.email
        userIndex == FileUserIndex(stored, currentEmail)
    IN IF currentEmail = Missing THEN 400
       ELSE IF userIndex = 0 THEN 404
       ELSE IF /\ newEmail # Missing /\ newEmail # currentEmail
               /\ \E u \in Range(stored) : u.email = newEmail /\ u.email # currentEmail
       THEN 409
       ELSE IF /\ req.username # Missing /\ req.username # stored[userIndex].username
               /\ \E u \in Range(stored) : u.username = req.username /\ u.email # newEmail
       THEN 409
       ELSE 200

\* the user the handler has changed in its copy of the file
FileUpdatedUser(user, req) ==
    [user EXCEPT !.username = IF req.username # Missing THEN req.username ELSE @,
                 !.firstName = IF req.firstName # Missing THEN req.firstName ELSE @,
                 !.lastName = IF req.lastName # Missing THEN req.lastName ELSE @,
                 !.phoneNumber = IF req.phoneNumber # Missing THEN req.phoneNumber ELSE @]

FileUpdateProfile(req) ==
    /\ backend = "file"
    /\ LET status == FileUpdateProfileStatus(fUsers, req)
           userIndex == FileUserIndex(fUsers, req.email) IN
        /\ fUsers' = IF status = 200
                     THEN writeData(fUsers, [fUsers EXCEPT ![userIndex] =
                                                FileUpdatedUser(fUsers[userIndex], req)])
                     ELSE fUsers
        /\ res' = [op |-> "PUT /api/auth/profile",
                   status |-> IF status = 200 /\ ~diskWritable THEN 500 ELSE status,
                   req |-> req, body |-> {}]
    /\ UNCHANGED <<backend, now, fBookings, fReceipts, sqlVars, clientVars, msgVars, ioVars,
                   extVars>>

\* POST /api/auth/change-password: the status the handler answers with
FileChangePasswordStatus(stored, req) ==
    IF req.email = Missing \/ req.currentPassword = Missing \/ req.newPassword = Missing
    THEN 400
    ELSE IF Len(req.newPassword) < MinPasswordLength THEN 400
    ELSE IF FileUserIndex(stored, req.email) = 0 THEN 404
    ELSE IF stored[FileUserIndex(stored, req.email)].password # req.currentPassword THEN 401
    ELSE 200

\* a faulty variant: the new password is not assigned
FilePasswordKept(stored, email, newPassword) == stored

\* user.password = newPassword
FilePasswordSet(stored, email, newPassword) ==
    [stored EXCEPT ![FileUserIndex(stored, email)].password = newPassword]

FileChangePassword(req) ==
    /\ backend = "file"
    /\ LET status == FileChangePasswordStatus(fUsers, req) IN
        /\ fUsers' = IF status = 200
                     THEN writeData(fUsers, FilePasswordSet(fUsers, req.email, req.newPassword))
                     ELSE fUsers
        /\ res' = [op |-> "POST /api/auth/change-password",
                   status |-> IF status = 200 /\ ~diskWritable THEN 500 ELSE status,
                   req |-> req, body |-> {}]
    /\ UNCHANGED <<backend, now, fBookings, fReceipts, sqlVars, clientVars, msgVars, ioVars,
                   extVars>>

\* POST /api/auth/forgot-password: the status the handler answers with
FileForgotPasswordStatus(stored, req) ==
    IF req.email = Missing \/ req.newPassword = Missing THEN 400
    ELSE IF Len(req.newPassword) < MinPasswordLength THEN 400
    ELSE IF FileUserIndex(stored, req.email) = 0 THEN 404
    ELSE IF /\ req.mobileNumber # Missing
            /\ stored[FileUserIndex(stored, req.email)].phoneNumber # Missing
            /\ stored[FileUserIndex(stored, req.email)].phoneNumber # req.mobileNumber
    THEN 401
    ELSE 200

FileForgotPassword(req) ==
    /\ backend = "file"
    /\ LET status == FileForgotPasswordStatus(fUsers, req) IN
        /\ fUsers' = IF status = 200
                     THEN writeData(fUsers, FilePasswordSet(fUsers, req.email, req.newPassword))
                     ELSE fUsers
        /\ res' = [op |-> "POST /api/auth/forgot-password",
                   status |-> IF status = 200 /\ ~diskWritable THEN 500 ELSE status,
                   req |-> req, body |-> {}]
    /\ UNCHANGED <<backend, now, fBookings, fReceipts, sqlVars, clientVars, msgVars, ioVars,
                   extVars>>

\* menuData.find(m => m.id === item.itemId)
FileMenuFound(itemId) == \E i \in DOMAIN sampleMenu : sampleMenu[i].id = itemId
FileMenuFind(itemId) == CHOOSE m \in Range(sampleMenu) : m.id = itemId

\* one element of bookingItems, lines 506-518
FileBookingItem(item) ==
    LET menuItem == FileMenuFind(item.itemId)
        itemTotal == menuItem.pricePerServing * item.quantity
    IN [itemId |-> item.itemId, itemName |-> menuItem.itemName, quantity |-> item.quantity,
        unitPrice |-> menuItem.pricePerServing, totalPrice |-> itemTotal]

FileBookingItems(menuItems) == [i \in DOMAIN menuItems |-> FileBookingItem(menuItems[i])]

\* a faulty variant: a cancelled booking still holds its date
dateAlreadyBookedAnyStatus(stored, eventDate) ==
    \E b \in Range(stored) : b.eventDate = eventDate

\* bookings.some(b => b.eventDate === eventDate && b.bookingStatus !== 'cancelled')
dateAlreadyBooked(stored, eventDate) ==
    \E b \in Range(stored) : b.eventDate = eventDate /\ b.bookingStatus # "cancelled"

\* POST /api/bookings: the status the handler answers with.  menuItem is
\* undefined for an itemId the menu does not hold, and reading
\* menuItem.pricePerServing then throws: Express answers 500.
FileCreateBookingStatus(stored, req) ==
    IF \/ req.eventType = Missing \/ req.eventDate = Missing \/ req.eventVenue = Missing
       \/ req.numGuests = 0 \/ ~req.menuItemsSent \/ req.customerName = Missing
       \/ req.customerEmail = Missing
    THEN 400
    ELSE IF dateAlreadyBooked(stored, req.eventDate) THEN 409
    ELSE IF \E i \in DOMAIN req.menuItems : ~FileMenuFound(req.menuItems[i].itemId) THEN 500
    ELSE 201

FileNewBooking(stored, req, clock) ==
    LET bookingItems == FileBookingItems(req.menuItems) IN
    [id |-> Len(stored) + 1, bookingId |-> clock, customerName |-> req.customerName,
     customerEmail |-> req.customerEmail, eventType |-> req.eventType,
     eventDate |-> req.eventDate, eventVenue |-> req.eventVenue, numGuests |-> req.numGuests,
     bookingStatus |-> "pending", totalAmount |-> SumTotalPrice(bookingItems),
     items |-> bookingItems]

FileCreateBooking(req) ==
    /\ backend = "file"
    /\ LET status == FileCreateBookingStatus(fBookings, req) IN
        /\ status = 201 => Len(fBookings) < MaxBookings
        /\ fBookings' = IF status = 201
                        THEN writeData(fBookings,
                                       Append(fBookings, FileNewBooking(fBookings, req, now)))
                        ELSE fBookings
        /\ res' = [op |-> "POST /api/bookings", status |-> status, req |-> <<>>, body |-> {}]
    /\ UNCHANGED <<backend, now, fUsers, fReceipts, sqlVars, clientVars, msgVars, ioVars,
                   extVars>>

\* bookings.find(b => b.id === parseInt(req.params.id))
FileBookingIndex(stored, id) ==
    IF \E i \in DOMAIN stored : stored[i].id = id
    THEN CHOOSE i \in DOMAIN stored : stored[i].id = id /\ \A j \in 1..(i - 1) : stored[j].id # id
    ELSE 0

\* PATCH /api/bookings/:id/status: the stored list afterwards
FilePatchedBookings(stored, id, status) ==
    LET i == FileBookingIndex(stored, id) IN
    IF i = 0 THEN stored ELSE [stored EXCEPT ![i].bookingStatus = status]

FilePatchBookingStatus(id, status) ==
    /\ backend = "file"
    /\ fBookings' = writeData(fBookings, FilePatchedBookings(fBookings, id, status))
    /\ res' = [op |-> "PATCH /api/bookings/:id/status",
               status |-> IF FileBookingIndex(fBookings, id) = 0 THEN 404 ELSE 200,
               req |-> <<>>, body |-> {}]
    /\ UNCHANGED <<backend, now, fUsers, fReceipts, sqlVars, clientVars, msgVars, ioVars,
                   extVars>>

\* the clients whose requests the server holds at the same time
Clients == {"tab1", "tab2"}

\* a request express.json() has parsed and the event loop has not yet handed
\* to its route handler; written holds how many bookings the file held when
\* the request arrived, status and id what the client was answered
FileRequestPending(client, req) ==
    [client |-> client, body |-> req, written |-> Len(fBookings), status |-> 0, id |-> 0]

\* POST /api/bookings arriving while other requests are still waiting
FileBookingArrives(client, req) ==
    /\ backend = "file"
    /\ \A r \in inFlight : r.client # client
    /\ inFlight' = inFlight \cup {FileRequestPending(client, req)}
    /\ UNCHANGED <<backend, now, res, fileVars, sqlVars, clientVars, msgVars, ioVars,
                   dash, cAuth, fOffers>>

\* the handler of POST /api/bookings run for one waiting request.  readData
\* and writeData use readFileSync and writeFileSync and the handler awaits
\* nothing, so it runs from its read to its answer in one turn of the event
\* loop: no other handler runs in between.
FileBookingHandled(r) ==
    /\ backend = "file"
    /\ r \in inFlight /\ r.status = 0
    /\ LET status == FileCreateBookingStatus(fBookings, r.body)
           newBooking == FileNewBooking(fBookings, r.body, now) IN
        /\ status = 201 => Len(fBookings) < MaxBookings
        /\ fBookings' = IF status = 201
                        THEN writeData(fBookings, Append(fBookings, newBooking))
                        ELSE fBookings
        /\ res' = [op |-> "POST /api/bookings", status |-> status, req |-> <<>>, body |-> {}]
        /\ inFlight' = (inFlight \ {r}) \cup
                        {[r EXCEPT !.status = status,
                                   !.id = IF status = 201 THEN newBooking.id ELSE 0]}
    /\ UNCHANGED <<backend, now, fUsers, fReceipts, sqlVars, clientVars, msgVars, ioVars,
                   dash, cAuth, fOffers>>

\* the client has its answer and is free to send the next request
FileAnswerReceived(r) ==
    /\ backend = "file"
    /\ r \in inFlight /\ r.status # 0
    /\ inFlight' = inFlight \ {r}
    /\ UNCHANGED <<backend, now, res, fileVars, sqlVars, clientVars, msgVars, ioVars,
                   dash, cAuth, fOffers>>


(***************************************************************************)
(* Decimal strings, as sequences of one-character strings: what            *)
(* String(n), padStart, slice, substring and parseInt do to them.          *)
(***************************************************************************)
DigitChars == <<"0", "1", "2", "3", "4", "5", "6", "7", "8", "9">>

RECURSIVE ToDigits(_)
ToDigits(n) ==
    IF n < 10 THEN <<DigitChars[n + 1]>>
    ELSE Append(ToDigits(n \div 10), DigitChars[(n % 10) + 1])

RECURSIVE padStart(_, _, _)
padStart(str, targetLength, ch) ==
    IF Len(str) >= targetLength THEN str ELSE padStart(<<ch>> \o str, targetLength, ch)

\* str.slice(-n)
sliceLast(str, n) ==
    IF Len(str) <= n THEN str ELSE SubSeq(str, Len(str) - n + 1, Len(str))

\* str.substring(1)
substring1(str) == SubSeq(str, 2, Len(str))

DigitValue(ch) == (CHOOSE i \in DOMAIN DigitChars : DigitChars[i] = ch) - 1

RECURSIVE parseIntDigits(_, _)
parseIntDigits(str, acc) ==
    IF str = <<>> THEN acc
    ELSE parseIntDigits(Tail(str), acc * 10 + DigitValue(Head(str)))

parseInt(str) == parseIntDigits(str, 0)

\* Date.now().toString(): the epoch's leading digits, then the offset
EpochMillions == 1700000
ReceiptNumberDigits == 6
Million == 10 ^ ReceiptNumberDigits

DateNowString(clock) ==
    ToDigits(EpochMillions + (clock \div Million))
        \o padStart(ToDigits(clock % Million), ReceiptNumberDigits, "0")

(***************************************************************************)
(* backend/server.js: receipts.                                            *)
(***************************************************************************)
\* `R${String(receipts.length + 1).padStart(6, '0')}`
FileReceiptNumber(stored) ==
    <<"R">> \o padStart(ToDigits(Len(stored) + 1), ReceiptNumberDigits, "0")

\* newReceipt, lines 571-598
FileNewReceipt(stored, booking, paymentMethod, paymentStatus, clock) ==
    LET subtotal == booking.totalAmount
        taxAmount == TaxOf(subtotal)
        totalAmount == subtotal + taxAmount
    IN [id |-> Len(stored) + 1, receiptId |-> clock,
        receiptNumber |-> FileReceiptNumber(stored),
        bookingId |-> booking.bookingId, customerEmail |-> booking.customerEmail,
        eventDate |-> booking.eventDate, items |-> booking.items,
        subtotal |-> subtotal, taxRate |-> TaxRatePct, taxAmount |-> taxAmount,
        totalAmount |-> totalAmount, paymentMethod |-> paymentMethod,
        paymentStatus |-> paymentStatus]

\* POST /api/receipts/generate
FileGenerateReceipt(bookingId, paymentMethod, paymentStatus) ==
    /\ backend = "file"
    /\ LET i == FileBookingIndex(fBookings, bookingId) IN
        IF i = 0
        THEN /\ fReceipts' = fReceipts
             /\ res' = [op |-> "POST /api/receipts/generate", status |-> 404, req |-> <<>>,
                        body |-> {}]
        ELSE LET newReceipt ==
                    FileNewReceipt(fReceipts, fBookings[i], paymentMethod, paymentStatus, now)
             IN /\ Len(fReceipts) < MaxReceipts
                /\ fReceipts' = writeData(fReceipts, Append(fReceipts, newReceipt))
                /\ res' = [op |-> "POST /api/receipts/generate", status |-> 201,
                           req |-> <<>>, body |-> {newReceipt}]
    /\ UNCHANGED <<backend, now, fUsers, fBookings, sqlVars, clientVars, msgVars, ioVars,
                   extVars>>

\* receipts.filter(r => r.paymentStatus === 'paid').reduce((sum, r) => sum + r.totalAmount, 0)
RECURSIVE FileTotalRevenue(_)
FileTotalRevenue(stored) ==
    IF stored = <<>> THEN 0
    ELSE (IF Head(stored).paymentStatus = "paid" THEN Head(stored).totalAmount ELSE 0)
         + FileTotalRevenue(Tail(stored))

\* GET /api/admin/dashboard: statistics.totalRevenue
FileDashboard ==
    /\ backend = "file"
    /\ res' = [op |-> "GET /api/admin/dashboard", status |-> 200, req |-> <<>>,
               body |-> {[totalRevenue |-> FileTotalRevenue(fReceipts)]}]
    /\ UNCHANGED <<backend, now, fileVars, sqlVars, clientVars, msgVars, ioVars, extVars>>

\* ---- messages (server.js 611-691).  Texts are sequences of characters;
\* createdAt is left out, no handler reads it back ----
FileMessageIndex(stored, id) == { i \in DOMAIN stored : stored[i].id = id }

\* POST /api/messages
FileNewMessage(stored, req, clock) ==
    [id |-> Len(stored) + 1, userEmail |-> req.userEmail,
     userName |-> IF req.userName = Missing THEN LocalPart(req.userEmail) ELSE req.userName,
     subject |-> req.subject, messageContent |-> req.messageContent, adminResponse |-> <<>>,
     messageStatus |-> "unread", updatedAt |-> clock]

FileCreateMessage(req) ==
    /\ backend = "file"
    /\ LET status == IF \/ req.userEmail = Missing \/ req.subject = <<>>
                        \/ req.messageContent = <<>>
                     THEN 400 ELSE 201
       IN
        /\ status = 201 => Len(fMessages) < MaxMessages
        /\ fMessages' = IF status = 201
                        THEN writeData(fMessages,
                                       Append(fMessages, FileNewMessage(fMessages, req, now)))
                        ELSE fMessages
        /\ res' = [op |-> "POST /api/messages", status |-> status, req |-> <<>>, body |-> {}]
    /\ UNCHANGED <<backend, now, fileVars, sqlVars, clientVars, messages, ioVars, extVars>>

\* who sends a request to the file-backed server: a user the page has logged
\* in.  The message routes take no token and never learn who that is.
FileCallers == Range(fUsers)

\* GET /api/messages/my?email=
FileMyMessages(caller, email) ==
    /\ backend = "file"
    /\ res' = IF email = Missing
              THEN [op |-> "GET /api/messages/my", status |-> 400,
                    req |-> [caller |-> caller, email |-> email], body |-> {}]
              ELSE [op |-> "GET /api/messages/my", status |-> 200,
                    req |-> [caller |-> caller, email |-> email],
                    body |-> { m \in Range(fMessages) : m.userEmail = email }]
    /\ UNCHANGED <<backend, now, fileVars, sqlVars, clientVars, msgVars, ioVars, extVars>>

\* GET /api/messages/admin: every message, to whoever asks
FileAdminMessages(caller) ==
    /\ backend = "file"
    /\ res' = [op |-> "GET /api/messages/admin", status |-> 200,
               req |-> [caller |-> caller, email |-> Missing], body |-> Range(fMessages)]
    /\ UNCHANGED <<backend, now, fileVars, sqlVars, clientVars, msgVars, ioVars, extVars>>

\* POST /api/messages/:id/respond: the messages as the handler leaves them
FileRespondedMessages(stored, id, adminResponse, clock) ==
    [i \in DOMAIN stored |->
        IF i \in FileMessageIndex(stored, id)
        THEN [stored[i] EXCEPT !.adminResponse = adminResponse, !.messageStatus = "replied",
                               !.updatedAt = clock]
        ELSE stored[i]]

FileRespond(id, adminResponse) ==
    /\ backend = "file"
    /\ LET status == IF adminResponse = <<>> THEN 400
                     ELSE IF FileMessageIndex(fMessages, id) = {} THEN 404
                     ELSE 200
       IN
        /\ fMessages' = IF status = 200
                        THEN writeData(fMessages,
                                       FileRespondedMessages(fMessages, id, adminResponse, now))
                        ELSE fMessages
        /\ res' = [op |-> "POST /api/messages/:id/respond", status |-> status, req |-> <<>>,
                   body |-> {}]
    /\ UNCHANGED <<backend, now, fileVars, sqlVars, clientVars, messages, ioVars, extVars>>

\* a faulty variant: the list of allowed values holds one more
MessageStatusesAndArchived == {"unread", "read", "replied", "archived"}

\* const allowed = ['unread', 'read', 'replied'] / body('status').isIn([...])
MessageStatuses == {"unread", "read", "replied"}

\* PATCH /api/messages/:id/status
FilePatchMessageStatus(id, status) ==
    /\ backend = "file"
    /\ LET answer == IF status \notin MessageStatuses THEN 400
                     ELSE IF FileMessageIndex(fMessages, id) = {} THEN 404
                     ELSE 200
       IN
        /\ fMessages' = IF answer = 200
                        THEN writeData(fMessages,
                                [i \in DOMAIN fMessages |->
                                    IF i \in FileMessageIndex(fMessages, id)
                                    THEN [fMessages[i] EXCEPT !.messageStatus = status,
                                                              !.updatedAt = now]
                                    ELSE fMessages[i]])
                        ELSE fMessages
        /\ res' = [op |-> "PATCH /api/messages/:id/status", status |-> answer,
                   req |-> [id |-> id, status |-> status], body |-> {}]
    /\ UNCHANGED <<backend, now, fileVars, sqlVars, clientVars, messages, ioVars, extVars>>

\* a faulty variant: the id is taken from the length, as for the other files
FileNewOfferIdByLength(offers) == Len(offers) + 1

\* offers.length ? Math.max(...offers.map(o => o.id)) + 1 : 1
FileNewOfferId(offers) ==
    IF Len(offers) = 0 THEN 1
    ELSE (CHOOSE m \in { offers[i].id : i \in DOMAIN offers } :
             \A i \in DOMAIN offers : offers[i].id <= m) + 1

\* POST /api/offers.  offers.json is not among the files initializeData
\* creates: readData returns [] until the first offer is written.
FileCreateOffer(req) ==
    /\ backend = "file"
    /\ LET status == IF req.title = Missing THEN 400
                     ELSE IF ~diskWritable THEN 500
                     ELSE 201
           newOffer == [id |-> FileNewOfferId(fOffers), title |-> req.title,
                        active |-> req.active]
       IN
        /\ status # 400 => newOffer.id <= MaxOfferId
        /\ fOffers' = IF status = 400 THEN fOffers
                      ELSE writeData(fOffers, Append(fOffers, newOffer))
        /\ res' = [op |-> "POST /api/offers", status |-> status, req |-> req, body |-> {}]
    /\ UNCHANGED <<backend, now, fileVars, sqlVars, clientVars, msgVars, ioVars, dash,
                   inFlight, cAuth>>

\* offers.findIndex(o => o.id === id): 0 when no offer has the id
FileOfferIndex(offers, id) ==
    IF \E i \in DOMAIN offers : offers[i].id = id
    THEN CHOOSE i \in DOMAIN offers :
            offers[i].id = id /\ \A j \in 1..(i - 1) : offers[j].id # id
    ELSE 0

\* offers.splice(idx, 1)
FileOffersWithout(offers, idx) ==
    [i \in 1..(Len(offers) - 1) |-> IF i < idx THEN offers[i] ELSE offers[i + 1]]

\* DELETE /api/offers/:id
FileDeleteOffer(id) ==
    /\ backend = "file"
    /\ LET idx == FileOfferIndex(fOffers, id)
           status == IF idx = 0 THEN 404 ELSE IF ~diskWritable THEN 500 ELSE 200
       IN
        /\ fOffers' = IF idx = 0 THEN fOffers
                      ELSE writeData(fOffers, FileOffersWithout(fOffers, idx))
        /\ res' = [op |-> "DELETE /api/offers/:id", status |-> status, req |-> <<>>,
                   body |-> {}]
    /\ UNCHANGED <<backend, now, fileVars, sqlVars, clientVars, msgVars, ioVars, dash,
                   inFlight, cAuth>>

(***************************************************************************)
(* Time passes between requests.                                           *)
(***************************************************************************)
InitialClock == Million - 1

\* the disk under the JSON files stops, or starts again, taking writes
DiskChanges ==
    /\ backend = "file"
    /\ diskWritable' = ~diskWritable
    /\ UNCHANGED <<backend, now, res, fileVars, sqlVars, clientVars, msgVars, insertItemQueue,
                   deleting, extVars>>

Tick ==
    /\ now < InitialClock + MaxTicks
    /\ now' = now + 1
    /\ UNCHANGED <<backend, res, fileVars, sqlVars, clientVars, msgVars, ioVars, extVars>>

(***************************************************************************)
(* backend/routes: the SQLite backend.  The schema (database/init) and the *)
(* token middleware (middleware/auth) are not among the sources; what the  *)
(* routes rely on is stated here.                                          *)
(***************************************************************************)
NULL == "NULL"

\* bcrypt.hash(password, 10) and bcrypt.compare(password, hash)
bcryptHash(password) == <<"$2a$10$", password>>
bcryptCompare(password, hash) == hash = bcryptHash(password)

\* the administrator account the database is created with
seedUsers ==
    { [id |-> 1, username |-> "admin", email |-> "admin@dsis.com",
       password_hash |-> bcryptHash("admin123"), first_name |-> "Admin",
       last_name |-> "User", phone_number |-> NULL, user_type |-> "admin",
       is_active |-> TRUE] }

\* req.user, as authenticateToken decodes it from a token issued to a stored user
Callers == { [id |-> u.id, userType |-> u.user_type] : u \in users }

\* INTEGER PRIMARY KEY AUTOINCREMENT: this.lastID of an INSERT
NextRowId(table) == lastID[table] + 1

\* express-validator: isEmail() and normalizeEmail(), on the addresses the
\* model's requests use
isEmail(email) == email \in {"admin@dsis.com", "customer@test.com", "ann@x.com",
                             "ann@y.com", "Ann@x.com", "bob@x.com"}
normalizeEmail(email) == IF email = "Ann@x.com" THEN "ann@x.com" ELSE email

MinUsernameLength == 3
MinNameLength == 2

\* POST /auth/register: the validators of the route
SqlRegisterValid(req) ==
    /\ Len(req.username) >= MinUsernameLength
    /\ isEmail(req.email)
    /\ Len(req.password) >= MinPasswordLength
    /\ Len(req.firstName) >= MinNameLength
    /\ Len(req.lastName) >= MinNameLength

\* a faulty variant: the lookup by username alone
SqlExistingUserByUsername(rows, email, username) ==
    \E u \in rows : u.username = username

\* SELECT id FROM users WHERE email = ? OR username = ?
SqlExistingUser(rows, email, username) ==
    \E u \in rows : u.email = email \/ u.username = username

\* POST /auth/register: the status the handler answers with
SqlRegisterStatus(rows, req) ==
    IF ~SqlRegisterValid(req) THEN 400
    ELSE IF SqlExistingUser(rows, normalizeEmail(req.email), req.username) THEN 409
    ELSE 201

SqlNewUser(id, req) ==
    [id |-> id, username |-> req.username, email |-> normalizeEmail(req.email),
     password_hash |-> bcryptHash(req.password), first_name |-> req.firstName,
     last_name |-> req.lastName, phone_number |-> NULL, user_type |-> "customer",
     is_active |-> TRUE]

SqlRegister(req) ==
    /\ backend = "sql"
    /\ LET status == SqlRegisterStatus(users, req) IN
        /\ status = 201 => Cardinality(users) < MaxUsers
        /\ users' = IF status = 201 THEN users \cup {SqlNewUser(NextRowId("users"), req)}
                    ELSE users
        /\ lastID' = IF status = 201 THEN [lastID EXCEPT !["users"] = @ + 1] ELSE lastID
        /\ res' = [op |-> "POST /auth/register", status |-> status, req |-> req, body |-> {}]
    /\ UNCHANGED <<backend, now, fileVars, menu_items, bookings, booking_items, receipts,
                   clientVars, msgVars, ioVars, extVars>>

\* requireAdmin / requireCustomerOrAdmin of middleware/auth
requireAdmin(caller) == caller.userType = "admin"
requireCustomerOrAdmin(caller) == caller.userType \in {"customer", "admin"}

\* SELECT * FROM <table> WHERE id = ?
RowsById(rows, id) == { r \in rows : r.id = id }

\* generateToken(user) of middleware/auth: a token that names the user
generateToken(user) == <<"token", user.id, user.user_type>>

\* POST /auth/login: the validators of the route
SqlLoginValid(req) == isEmail(req.email) /\ Len(req.password) >= MinPasswordLength

\* a faulty variant: the lookup without the is_active condition
SqlLoginRowsInactiveToo(rows, req) ==
    { u \in rows : u.email = normalizeEmail(req.email) }

\* SELECT * FROM users WHERE email = ? AND is_active = 1
SqlLoginRows(rows, req) ==
    { u \in rows : u.email = normalizeEmail(req.email) /\ u.is_active }

\* POST /auth/login: the status the handler answers with
SqlLoginStatus(rows, req) ==
    IF ~SqlLoginValid(req) THEN 400
    ELSE IF SqlLoginRows(rows, req) = {} THEN 401
    ELSE IF \A u \in SqlLoginRows(rows, req) : ~bcryptCompare(req.password, u.password_hash)
    THEN 401
    ELSE 200

\* POST /auth/login
SqlLogin(req) ==
    /\ backend = "sql"
    /\ LET status == SqlLoginStatus(users, req) IN
        res' = [op |-> "POST /auth/login", status |-> status, req |-> req,
                body |-> IF status = 200
                         THEN { [token |-> generateToken(u),
                                 user |-> WithoutField(u, "password_hash")] :
                                u \in SqlLoginRows(users, req) }
                         ELSE {}]
    /\ UNCHANGED <<backend, now, fileVars, sqlVars, clientVars, msgVars, ioVars, extVars>>

\* PUT /auth/profile: the validators of the route, every field optional
SqlProfileValid(body) ==
    /\ body.firstName # Missing => Len(body.firstName) >= MinNameLength
    /\ body.lastName # Missing => Len(body.lastName) >= MinNameLength
    /\ body.email # Missing => isEmail(body.email)
    /\ body.username # Missing => Len(body.username) >= MinUsernameLength

\* PUT /auth/profile: the status the handler answers with
SqlUpdateProfileStatus(rows, caller, body) ==
    IF ~SqlProfileValid(body) THEN 400
    ELSE IF /\ body.email # Missing
            /\ \E u \in rows : u.email = normalizeEmail(body.email) /\ u.id # caller.id
    THEN 409
    ELSE IF /\ body.username # Missing
            /\ \E u \in rows : u.username = body.username /\ u.id # caller.id
    THEN 409
    ELSE IF /\ body.firstName = Missing /\ body.lastName = Missing /\ body.email = Missing
            /\ body.phoneNumber = Missing /\ body.username = Missing
    THEN 400
    ELSE 200

\* UPDATE users SET <the fields sent> WHERE id = ?
SqlUpdatedUser(user, body) ==
    [user EXCEPT !.first_name = IF body.firstName # Missing THEN body.firstName ELSE @,
                 !.last_name = IF body.lastName # Missing THEN body.lastName ELSE @,
                 !.email = IF body.email # Missing THEN normalizeEmail(body.email) ELSE @,
                 !.phone_number = IF body.phoneNumber # Missing THEN body.phoneNumber ELSE @,
                 !.username = IF body.username # Missing THEN body.username ELSE @]

SqlUpdateProfile(caller, body) ==
    /\ backend = "sql"
    /\ LET status == SqlUpdateProfileStatus(users, caller, body) IN
        /\ users' = IF status = 200
                    THEN { IF u.id = caller.id THEN SqlUpdatedUser(u, body) ELSE u : u \in users }
                    ELSE users
        /\ res' = [op |-> "PUT /auth/profile", status |-> status,
                   req |-> [caller |-> caller, body |-> body], body |-> {}]
    /\ UNCHANGED <<backend, now, fileVars, menu_items, bookings, booking_items, receipts, lastID,
                   clientVars, msgVars, ioVars, extVars>>

\* POST /auth/change-password: the status the handler answers with
SqlChangePasswordStatus(rows, caller, body) ==
    IF \/ Len(body.currentPassword) < MinPasswordLength
       \/ Len(body.newPassword) < MinPasswordLength
    THEN 400
    ELSE IF \A u \in RowsById(rows, caller.id) :
               ~bcryptCompare(body.currentPassword, u.password_hash)
    THEN 401
    ELSE 200

SqlChangePassword(caller, body) ==
    /\ backend = "sql"
    /\ RowsById(users, caller.id) # {}
    /\ LET status == SqlChangePasswordStatus(users, caller, body) IN
        /\ users' = IF status = 200
                    THEN { IF u.id = caller.id
                           THEN [u EXCEPT !.password_hash = bcryptHash(body.newPassword)]
                           ELSE u : u \in users }
                    ELSE users
        /\ res' = [op |-> "POST /auth/change-password", status |-> status,
                   req |-> [caller |-> caller, body |-> body], body |-> {}]
    /\ UNCHANGED <<backend, now, fileVars, menu_items, bookings, booking_items, receipts, lastID,
                   clientVars, msgVars, ioVars, extVars>>

\* PATCH /admin/users/:id/status: UPDATE users SET is_active = ? WHERE id = ?
AdminSetUserStatus(caller, id, isActive) ==
    /\ backend = "sql"
    /\ users' = IF requireAdmin(caller)
                THEN { IF u.id = id THEN [u EXCEPT !.is_active = isActive] ELSE u : u \in users }
                ELSE users
    /\ res' = [op |-> "PATCH /admin/users/:id/status",
               status |-> IF requireAdmin(caller) THEN 200 ELSE 403, req |-> <<>>, body |-> {}]
    /\ UNCHANGED <<backend, now, fileVars, menu_items, bookings, booking_items, receipts, lastID,
                   clientVars, msgVars, ioVars, extVars>>

\* body('pricePerServing').isFloat({ min: 0 })
isPrice(x) == x >= 0

\* POST /menu (admin only)
MenuCreateStatus(caller, body) ==
    IF ~requireAdmin(caller) THEN 403
    ELSE IF body.itemName = Missing \/ body.category = Missing \/ ~isPrice(body.pricePerServing)
    THEN 400
    ELSE 201

MenuNewItem(id, body) ==
    [id |-> id, price_per_serving |-> body.pricePerServing,
     is_available |-> IF body.isAvailable THEN 1 ELSE 0]

MenuCreate(caller, body) ==
    /\ backend = "sql"
    /\ LET status == MenuCreateStatus(caller, body) IN
        /\ status = 201 => lastID["menu_items"] < MaxMenu
        /\ menu_items' = IF status = 201
                         THEN menu_items \cup {MenuNewItem(NextRowId("menu_items"), body)}
                         ELSE menu_items
        /\ lastID' = IF status = 201 THEN [lastID EXCEPT !["menu_items"] = @ + 1] ELSE lastID
        /\ res' = [op |-> "POST /menu", status |-> status, req |-> <<>>, body |-> {}]
    /\ UNCHANGED <<backend, now, fileVars, users, bookings, booking_items, receipts,
                   clientVars, msgVars, ioVars, extVars>>

\* the switch over Object.keys(updates), lines 144-173
MenuUpdatableKeys == {"itemName", "description", "category", "pricePerServing",
                      "imageUrl", "isAvailable"}

MenuApplyUpdates(item, updates) ==
    [item EXCEPT
        !.price_per_serving =
            IF "pricePerServing" \in DOMAIN updates THEN updates.pricePerServing ELSE @,
        !.is_available =
            IF "isAvailable" \in DOMAIN updates
            THEN (IF updates.isAvailable THEN 1 ELSE 0) ELSE @]

\* PUT /menu/:id (admin only)
MenuUpdateStatus(rows, caller, id, updates) ==
    IF ~requireAdmin(caller) THEN 403
    ELSE IF "pricePerServing" \in DOMAIN updates /\ ~isPrice(updates.pricePerServing) THEN 400
    ELSE IF RowsById(rows, id) = {} THEN 404
    ELSE IF DOMAIN updates \cap MenuUpdatableKeys = {} THEN 400
    ELSE 200

MenuUpdate(caller, id, updates) ==
    /\ backend = "sql"
    /\ LET status == MenuUpdateStatus(menu_items, caller, id, updates) IN
        /\ menu_items' = IF status = 200
                         THEN { IF m.id = id THEN MenuApplyUpdates(m, updates) ELSE m :
                                m \in menu_items }
                         ELSE menu_items
        /\ res' = [op |-> "PUT /menu/:id", status |-> status, req |-> <<>>, body |-> {}]
    /\ UNCHANGED <<backend, now, fileVars, users, bookings, booking_items, receipts, lastID,
                   clientVars, msgVars, ioVars, extVars>>

\* a faulty variant: the count that finds no line
MenuItemUseCountNone(lines, itemId) ==
    Cardinality({ i \in DOMAIN lines : FALSE })

\* SELECT COUNT(*) as count FROM booking_items WHERE item_id = ?
MenuItemUseCount(lines, itemId) ==
    Cardinality({ i \in DOMAIN lines : lines[i].item_id = itemId })

\* DELETE /menu/:id (admin only)
MenuDeleteStatus(lines, caller, id) ==
    IF ~requireAdmin(caller) THEN 403
    ELSE IF MenuItemUseCount(lines, id) > 0 THEN 400
    ELSE 200

MenuDelete(caller, id) ==
    /\ backend = "sql"
    /\ LET status == MenuDeleteStatus(booking_items, caller, id) IN
        /\ menu_items' = IF status = 200 THEN { m \in menu_items : m.id # id } ELSE menu_items
        /\ res' = [op |-> "DELETE /menu/:id", status |-> status, req |-> [id |-> id],
                   body |-> {}]
    /\ UNCHANGED <<backend, now, fileVars, users, bookings, booking_items, receipts, lastID,
                   clientVars, msgVars, ioVars, extVars>>

\* PATCH /menu/:id/availability (admin only)
MenuToggleAvailability(caller, id) ==
    /\ backend = "sql"
    /\ menu_items' = IF requireAdmin(caller)
                     THEN { IF m.id = id THEN [m EXCEPT !.is_available = 1 - @] ELSE m :
                            m \in menu_items }
                     ELSE menu_items
    /\ res' = [op |-> "PATCH /menu/:id/availability",
               status |-> IF requireAdmin(caller) THEN 200 ELSE 403, req |-> <<>>, body |-> {}]
    /\ UNCHANGED <<backend, now, fileVars, users, bookings, booking_items, receipts, lastID,
                   clientVars, msgVars, ioVars, extVars>>

\* body('eventDate').isISO8601(), on the dates the model's requests use
isISO8601(date) == date \in {"2026-12-24", "2026-12-25"}

\* POST /bookings: the validators of the route
SqlBookingValid(body) ==
    /\ body.eventType # Missing
    /\ isISO8601(body.eventDate)
    /\ body.eventVenue # Missing
    /\ body.numGuests >= 1
    /\ Len(body.menuItems) >= 1
    /\ \A i \in DOMAIN body.menuItems : body.menuItems[i].quantity >= 1

\* SELECT * FROM menu_items WHERE id = ? AND is_available = 1
SqlAvailableItems(catalog, itemId) ==
    { m \in catalog : m.id = itemId /\ m.is_available = 1 }

\* a faulty variant: the line total forgets the quantity
SqlValidItemUnitTotal(catalog, item) ==
    LET menuItem == CHOOSE m \in SqlAvailableItems(catalog, item.itemId) : TRUE
    IN [itemId |-> item.itemId, quantity |-> item.quantity,
        unitPrice |-> menuItem.price_per_serving, totalPrice |-> menuItem.price_per_serving]

\* one element of validItems, lines 127-135
SqlValidItem(catalog, item) ==
    LET menuItem == CHOOSE m \in SqlAvailableItems(catalog, item.itemId) : TRUE
        itemTotal == menuItem.price_per_serving * item.quantity
    IN [itemId |-> item.itemId, quantity |-> item.quantity,
        unitPrice |-> menuItem.price_per_serving, totalPrice |-> itemTotal]

SqlValidItems(catalog, menuItems) ==
    [i \in DOMAIN menuItems |-> SqlValidItem(catalog, menuItems[i])]

\* POST /bookings: the status the handler answers with
SqlCreateBookingStatus(catalog, caller, body) ==
    IF ~requireCustomerOrAdmin(caller) THEN 403
    ELSE IF ~SqlBookingValid(body) THEN 400
    ELSE IF \E i \in DOMAIN body.menuItems :
                SqlAvailableItems(catalog, body.menuItems[i].itemId) = {}
    THEN 400
    ELSE 201

\* INSERT INTO bookings (...); booking_status takes the column default
SqlNewBooking(id, caller, body, validItems) ==
    [id |-> id, user_id |-> caller.id, event_date |-> body.eventDate,
     booking_status |-> "pending", total_amount |-> SumTotalPrice(validItems)]

\* INSERT INTO booking_items (...), one row per element of validItems
SqlNewBookingItems(newBookingId, validItems) ==
    [i \in DOMAIN validItems |->
        [booking_id |-> newBookingId, item_id |-> validItems[i].itemId,
         quantity |-> validItems[i].quantity, unit_price |-> validItems[i].unitPrice,
         total_price |-> validItems[i].totalPrice]]

SqlCreateBooking(caller, body) ==
    /\ backend = "sql"
    /\ LET status == SqlCreateBookingStatus(menu_items, caller, body) IN
        IF status = 201
        THEN LET validItems == SqlValidItems(menu_items, body.menuItems)
                 newBookingId == NextRowId("bookings")
             IN /\ lastID["bookings"] < MaxBookings
                /\ bookings' = bookings \cup {SqlNewBooking(newBookingId, caller, body, validItems)}
                /\ booking_items' = booking_items \o SqlNewBookingItems(newBookingId, validItems)
                /\ lastID' = [lastID EXCEPT !["bookings"] = @ + 1]
                /\ res' = [op |-> "POST /bookings", status |-> 201, req |-> <<>>, body |-> {}]
        ELSE /\ UNCHANGED <<bookings, booking_items, lastID>>
             /\ res' = [op |-> "POST /bookings", status |-> status, req |-> <<>>, body |-> {}]
    /\ UNCHANGED <<backend, now, fileVars, users, menu_items, receipts, clientVars,
                   msgVars, ioVars, extVars>>

\* a faulty variant: the WHERE clause without the user_id condition
SqlVisibleBookingsUnfiltered(rows, userRows, caller) ==
    { b \in rows : \E u \in userRows : u.id = b.user_id }

\* SELECT b.*, ... FROM bookings b JOIN users u ON b.user_id = u.id [WHERE b.user_id = ?]
SqlVisibleBookings(rows, userRows, caller) ==
    { b \in rows : /\ \E u \in userRows : u.id = b.user_id
                   /\ (caller.userType = "admin" \/ b.user_id = caller.id) }

\* SELECT bi.* ... WHERE bi.booking_id = ?
SqlBookingLines(lines, bookingId) ==
    SelectSeq(lines, LAMBDA l : l.booking_id = bookingId)

\* GET /bookings
SqlListBookings(caller) ==
    /\ backend = "sql"
    /\ res' = IF requireCustomerOrAdmin(caller)
              THEN [op |-> "GET /bookings", status |-> 200, req |-> [caller |-> caller],
                    body |-> SqlVisibleBookings(bookings, users, caller)]
              ELSE [op |-> "GET /bookings", status |-> 403, req |-> [caller |-> caller],
                    body |-> {}]
    /\ UNCHANGED <<backend, now, fileVars, sqlVars, clientVars, msgVars, ioVars, extVars>>

\* GET /bookings/:id
SqlGetBooking(caller, id) ==
    /\ backend = "sql"
    /\ LET found == RowsById(SqlVisibleBookings(bookings, users, caller), id)
           req == [caller |-> caller, id |-> id]
       IN
        res' = IF ~requireCustomerOrAdmin(caller)
               THEN [op |-> "GET /bookings/:id", status |-> 403, req |-> req, body |-> {}]
               ELSE IF found = {}
               THEN [op |-> "GET /bookings/:id", status |-> 404, req |-> req, body |-> {}]
               ELSE [op |-> "GET /bookings/:id", status |-> 200, req |-> req, body |-> found]
    /\ UNCHANGED <<backend, now, fileVars, sqlVars, clientVars, msgVars, ioVars, extVars>>

\* a faulty variant: the comparison of the row's user_id with req.user.id is left out
SqlOwnerCheckStatusAnyCaller(rows, caller, id) ==
    IF ~requireCustomerOrAdmin(caller) THEN 403
    ELSE IF RowsById(rows, id) = {} THEN 404
    ELSE 200

\* PATCH /bookings/:id/status and DELETE /bookings/:id: the checks both make
SqlOwnerCheckStatus(rows, caller, id) ==
    IF ~requireCustomerOrAdmin(caller) THEN 403
    ELSE IF RowsById(rows, id) = {} THEN 404
    ELSE IF caller.userType # "admin" /\ \A b \in RowsById(rows, id) : b.user_id # caller.id
    THEN 403
    ELSE 200

\* PATCH /bookings/:id/status
SqlPatchBookingStatus(caller, id, status) ==
    /\ backend = "sql"
    /\ LET answer == IF ~requireCustomerOrAdmin(caller) THEN 403
                     ELSE IF status \notin BookingStatuses THEN 400
                     ELSE SqlOwnerCheckStatus(bookings, caller, id) IN
        /\ bookings' = IF answer = 200
                       THEN { IF b.id = id THEN [b EXCEPT !.booking_status = status] ELSE b :
                              b \in bookings }
                       ELSE bookings
        /\ res' = [op |-> "PATCH /bookings/:id/status", status |-> answer,
                   req |-> [caller |-> caller, id |-> id, status |-> status], body |-> {}]
    /\ UNCHANGED <<backend, now, fileVars, users, menu_items, booking_items, receipts, lastID,
                   clientVars, msgVars, ioVars, extVars>>

\* PATCH /admin/bookings/:id/status: the UPDATE runs without a look at
\* whether a row has the id
AdminPatchBookingStatus(caller, id, status) ==
    /\ backend = "sql"
    /\ LET answer == IF ~requireAdmin(caller) THEN 403
                     ELSE IF status \notin BookingStatuses THEN 400
                     ELSE 200 IN
        /\ bookings' = IF answer = 200
                       THEN { IF b.id = id THEN [b EXCEPT !.booking_status = status] ELSE b :
                              b \in bookings }
                       ELSE bookings
        /\ res' = [op |-> "PATCH /admin/bookings/:id/status", status |-> answer,
                   req |-> [caller |-> caller, id |-> id, status |-> status], body |-> {}]
    /\ UNCHANGED <<backend, now, fileVars, users, menu_items, booking_items, receipts, lastID,
                   clientVars, msgVars, ioVars, extVars>>

\* DELETE /bookings/:id
SqlDeleteBooking(caller, id) ==
    /\ backend = "sql"
    /\ LET answer == SqlOwnerCheckStatus(bookings, caller, id) IN
        /\ booking_items' = IF answer = 200
                            THEN SelectSeq(booking_items, LAMBDA l : l.booking_id # id)
                            ELSE booking_items
        /\ bookings' = IF answer = 200 THEN { b \in bookings : b.id # id } ELSE bookings
        /\ res' = [op |-> "DELETE /bookings/:id", status |-> answer, req |-> <<>>, body |-> {}]
    /\ UNCHANGED <<backend, now, fileVars, users, menu_items, receipts, lastID, clientVars,
                   msgVars, ioVars, extVars>>

\* POST /bookings as the database driver runs it: the handler inserts the
\* bookings row, hands one insertItem.run per line to the driver, which
\* queues them, and answers 201; no statement is inside a transaction
SqlCreateBookingRespond(caller, body) ==
    /\ backend = "sql"
    /\ LET status == SqlCreateBookingStatus(menu_items, caller, body) IN
        IF status = 201
        THEN LET validItems == SqlValidItems(menu_items, body.menuItems)
                 newBookingId == NextRowId("bookings")
             IN /\ lastID["bookings"] < MaxBookings
                /\ bookings' = bookings \cup {SqlNewBooking(newBookingId, caller, body, validItems)}
                /\ insertItemQueue' =
                       insertItemQueue \o SqlNewBookingItems(newBookingId, validItems)
                /\ lastID' = [lastID EXCEPT !["bookings"] = @ + 1]
                /\ res' = [op |-> "POST /bookings", status |-> 201, req |-> <<>>,
                           body |-> {[id |-> newBookingId, items |-> validItems]}]
        ELSE /\ UNCHANGED <<bookings, insertItemQueue, lastID>>
             /\ res' = [op |-> "POST /bookings", status |-> status, req |-> <<>>, body |-> {}]
    /\ UNCHANGED <<backend, now, fileVars, users, menu_items, booking_items, receipts,
                   clientVars, msgVars, diskWritable, deleting, extVars>>

\* insertItem.run([...]) when the driver executes it: it was given no
\* callback, so a failed INSERT is dropped without a trace
SqlInsertItemRun(ok) ==
    /\ backend = "sql"
    /\ insertItemQueue # <<>>
    /\ booking_items' = IF ok THEN Append(booking_items, Head(insertItemQueue))
                        ELSE booking_items
    /\ insertItemQueue' = Tail(insertItemQueue)
    /\ UNCHANGED <<backend, now, res, fileVars, users, menu_items, bookings, receipts, lastID,
                   clientVars, msgVars, diskWritable, deleting, extVars>>

\* DELETE /bookings/:id up to the callback of DELETE FROM booking_items
SqlDeleteBookingItems(caller, id) ==
    /\ backend = "sql"
    /\ LET answer == SqlOwnerCheckStatus(bookings, caller, id) IN
        /\ booking_items' = IF answer = 200
                            THEN SelectSeq(booking_items, LAMBDA l : l.booking_id # id)
                            ELSE booking_items
        /\ deleting' = IF answer = 200 THEN deleting \cup {id} ELSE deleting
        /\ res' = IF answer = 200 THEN res
                  ELSE [op |-> "DELETE /bookings/:id", status |-> answer, req |-> [id |-> id],
                        body |-> {}]
    /\ UNCHANGED <<backend, now, fileVars, users, menu_items, bookings, receipts, lastID,
                   clientVars, msgVars, diskWritable, insertItemQueue, extVars>>

\* DELETE /bookings/:id from that callback on: DELETE FROM bookings, then 200
SqlDeleteBookingRow(id) ==
    /\ backend = "sql"
    /\ id \in deleting
    /\ bookings' = { b \in bookings : b.id # id }
    /\ deleting' = deleting \ {id}
    /\ res' = [op |-> "DELETE /bookings/:id", status |-> 200, req |-> [id |-> id], body |-> {}]
    /\ UNCHANGED <<backend, now, fileVars, users, menu_items, booking_items, receipts, lastID,
                   clientVars, msgVars, diskWritable, insertItemQueue, extVars>>

\* new Date().toISOString().split('T')[0]: every clock value of the model
\* falls on the epoch's day
IssuedDate(clock) == "2023-11-14"

\* `R${Date.now().toString().slice(-6)}`
SqlReceiptNumber(clock) == <<"R">> \o sliceLast(DateNowString(clock), ReceiptNumberDigits)

\* POST /receipts/generate: the status the handler answers with
SqlGenerateReceiptStatus(rows, userRows, caller, body) ==
    IF ~requireCustomerOrAdmin(caller) THEN 403
    ELSE IF body.paymentStatus # Missing /\ body.paymentStatus \notin PaymentStatuses THEN 400
    ELSE IF \A b \in RowsById(rows, body.bookingId) : \A u \in userRows : u.id # b.user_id
    THEN 404
    ELSE IF caller.userType # "admin"
            /\ \A b \in RowsById(rows, body.bookingId) : b.user_id # caller.id
    THEN 403
    ELSE 201

\* INSERT INTO receipts (...): the ten columns the statement names
ReceiptColumns ==
    << "receipt_id", "booking_id", "receipt_number", "subtotal", "tax_rate", "tax_amount",
       "total_amount", "payment_method", "payment_status", "issued_date" >>

\* The row an INSERT of `values` makes: the values bind to the placeholders
\* in order, and a placeholder past the last value stays NULL.
SqlNewReceiptRow(id, values) ==
    [c \in {"id"} \cup Range(ReceiptColumns) |->
        IF c = "id" THEN id
        ELSE LET k == CHOOSE i \in DOMAIN ReceiptColumns : ReceiptColumns[i] = c
             IN IF k <= Len(values) THEN values[k] ELSE NULL]

\* the receipt object of the response, lines 320-339: `fields` are the
\* properties the handler copies from its local constants
SqlReceiptResponse(id, booking, items, fields) ==
    fields @@ [id |-> id, eventDate |-> booking.event_date, items |-> items]

\* POST /receipts/generate.  `suffix` is the Math.random() part of the
\* receipt id.  Whether the receipts table takes a row whose last two
\* columns are NULL rests on the schema, which is not among the sources:
\* `accepted` is the outcome of the INSERT (false: the callback gets err and
\* the handler answers 500).
SqlGenerateReceipt(caller, body, suffix, accepted) ==
    /\ backend = "sql"
    /\ LET status == SqlGenerateReceiptStatus(bookings, users, caller, body) IN
        IF status = 201 /\ ~accepted
        THEN /\ UNCHANGED <<receipts, lastID>>
             /\ res' = [op |-> "POST /receipts/generate", status |-> 500, req |-> <<>>,
                        body |-> {}]
        ELSE IF status = 201
        THEN LET booking == CHOOSE b \in RowsById(bookings, body.bookingId) : TRUE
                 paymentMethod == IF body.paymentMethod = Missing THEN "Cash/Card"
                                  ELSE body.paymentMethod
                 paymentStatus == IF body.paymentStatus = Missing THEN "pending"
                                  ELSE body.paymentStatus
                 items == SqlBookingLines(booking_items, body.bookingId)
                 subtotal == booking.total_amount
                 taxAmount == TaxOf(subtotal)
                 totalAmount == subtotal + taxAmount
                 receiptId == <<now, suffix>>
                 receiptNumber == SqlReceiptNumber(now)
                 id == NextRowId("receipts")
             IN /\ lastID["receipts"] < MaxReceipts
                /\ receipts' = receipts \cup
                        {SqlNewReceiptRow(id, << receiptId, body.bookingId, receiptNumber,
                                               subtotal, totalAmount, paymentMethod,
                                               paymentStatus, IssuedDate(now) >>)}
                /\ lastID' = [lastID EXCEPT !["receipts"] = @ + 1]
                /\ res' = [op |-> "POST /receipts/generate", status |-> 201, req |-> <<>>,
                           body |-> {SqlReceiptResponse(id, booking, items,
                                        [receiptId |-> receiptId,
                                         receiptNumber |-> receiptNumber,
                                         subtotal |-> subtotal, totalAmount |-> totalAmount,
                                         paymentMethod |-> paymentMethod,
                                         paymentStatus |-> paymentStatus,
                                         issuedDate |-> IssuedDate(now)])}]
        ELSE /\ UNCHANGED <<receipts, lastID>>
             /\ res' = [op |-> "POST /receipts/generate", status |-> status, req |-> <<>>,
                        body |-> {}]
    /\ UNCHANGED <<backend, now, fileVars, users, menu_items, bookings, booking_items,
                   clientVars, msgVars, ioVars, extVars>>

\* SELECT b.user_id FROM receipts r JOIN bookings b ON r.booking_id = b.id WHERE r.id = ?
SqlReceiptOwners(receiptRows, bookingRows, id) ==
    { b.user_id : b \in { x \in bookingRows :
                            \E r \in RowsById(receiptRows, id) : r.booking_id = x.id } }

\* a faulty variant: the comparison of the owner with req.user.id is left out
SqlPaymentStatusAnswerAnyCaller(receiptRows, bookingRows, caller, id, paymentStatus) ==
    IF ~requireCustomerOrAdmin(caller) THEN 403
    ELSE IF paymentStatus \notin PaymentStatuses THEN 400
    ELSE IF SqlReceiptOwners(receiptRows, bookingRows, id) = {} THEN 404
    ELSE 200

\* PATCH /receipts/:id/payment-status: the status the handler answers with
SqlPaymentStatusAnswer(receiptRows, bookingRows, caller, id, paymentStatus) ==
    IF ~requireCustomerOrAdmin(caller) THEN 403
    ELSE IF paymentStatus \notin PaymentStatuses THEN 400
    ELSE IF SqlReceiptOwners(receiptRows, bookingRows, id) = {} THEN 404
    ELSE IF caller.userType # "admin"
            /\ caller.id \notin SqlReceiptOwners(receiptRows, bookingRows, id)
    THEN 403
    ELSE 200

\* PATCH /receipts/:id/payment-status
SqlUpdatePaymentStatus(caller, id, paymentStatus) ==
    /\ backend = "sql"
    /\ LET answer == SqlPaymentStatusAnswer(receipts, bookings, caller, id, paymentStatus) IN
        /\ receipts' = IF answer = 200
                       THEN { IF r.id = id THEN [r EXCEPT !.payment_status = paymentStatus]
                              ELSE r : r \in receipts }
                       ELSE receipts
        /\ res' = [op |-> "PATCH /receipts/:id/payment-status", status |-> answer,
                   req |-> [caller |-> caller, id |-> id, paymentStatus |-> paymentStatus],
                   body |-> {}]
    /\ UNCHANGED <<backend, now, fileVars, users, menu_items, bookings, booking_items, lastID,
                   clientVars, msgVars, ioVars, extVars>>

\* ---- the dashboard (routes/admin) ----
\* the JavaScript types of the eight values the INSERT of a receipt binds
ReceiptValueTypes ==
    << "string", "number", "string", "number", "number", "string", "string", "string" >>

\* what a column of a receipts row holds: the type of the value bound to it
ReceiptColumnType(column) ==
    LET k == CHOOSE i \in DOMAIN ReceiptColumns : ReceiptColumns[i] = column
    IN IF k <= Len(ReceiptValueTypes) THEN ReceiptValueTypes[k] ELSE NULL

\* SUM(column) over rows: SQLite adds a text that is no number, and NULL, as 0
RECURSIVE SqlSum(_, _)
SqlSum(rows, column) ==
    IF rows = {} THEN 0
    ELSE LET r == CHOOSE x \in rows : TRUE
         IN (IF ReceiptColumnType(column) = "number" THEN r[column] ELSE 0)
            + SqlSum(rows \ {r}, column)

\* SELECT COALESCE(SUM(total_amount), 0) as total FROM receipts WHERE payment_status = "paid"
SqlTotalRevenue(rows) == SqlSum({ r \in rows : r.payment_status = "paid" }, "total_amount")

\* GET /admin/dashboard: statistics.totalRevenue
SqlDashboard(caller) ==
    /\ backend = "sql"
    /\ res' = IF requireAdmin(caller)
              THEN [op |-> "GET /admin/dashboard", status |-> 200, req |-> <<>>,
                    body |-> {[totalRevenue |-> SqlTotalRevenue(receipts)]}]
              ELSE [op |-> "GET /admin/dashboard", status |-> 403, req |-> <<>>, body |-> {}]
    /\ UNCHANGED <<backend, now, fileVars, sqlVars, clientVars, msgVars, ioVars, extVars>>

\* ---- GET /admin/dashboard, callback by callback (admin.js 39-72) ----
\* Object.keys(queries)
DashboardKeys ==
    { "totalUsers", "totalBookings", "totalRevenue", "pendingBookings", "totalMenuItems",
      "availableMenuItems", "recentBookings", "monthlyRevenue" }

\* key.includes('recent') || key.includes('monthly')
DashboardKeyIsList(key) == key \in {"recentBookings", "monthlyRevenue"}

\* the closure variables of a request that has not been made
DashboardIdle ==
    [phase |-> "idle", pending |-> {}, failed |-> {}, results |-> <<>>, completed |-> 0,
     sent |-> 0]

\* the rows[0].count, rows[0].total or rows of each query, on the tables as
\* they are when the query runs
DashboardQuery(key) ==
    CASE key = "totalUsers" -> Cardinality({ u \in users : u.is_active })
      [] key = "totalBookings" -> Cardinality(bookings)
      [] key = "totalRevenue" -> SqlTotalRevenue(receipts)
      [] key = "pendingBookings" ->
            Cardinality({ b \in bookings : b.booking_status = "pending" })
      [] key = "totalMenuItems" -> Cardinality(menu_items)
      [] key = "availableMenuItems" -> Cardinality({ m \in menu_items : m.is_available = 1 })
      [] key = "recentBookings" -> { b \in bookings : \E u \in users : u.id = b.user_id }
      [] key = "monthlyRevenue" ->
            IF { r \in receipts : r.payment_status = "paid" } = {} THEN {}
            ELSE {[month |-> "2023-11", revenue |-> SqlTotalRevenue(receipts)]}

\* results[key] = ... in the callback of db.all
DashboardResult(key, ok) ==
    IF ok
    THEN IF DashboardKeyIsList(key) THEN DashboardQuery(key)
         ELSE IF DashboardQuery(key) # 0 THEN DashboardQuery(key) ELSE 0
    ELSE IF DashboardKeyIsList(key) THEN {} ELSE 0

\* a faulty variant: the answer goes out from the first callback on
DashboardAllDoneFromFirst(completed) == completed >= 1

\* completed === totalQueries
DashboardAllDone(completed) == completed = Cardinality(DashboardKeys)

\* the handler up to the end of Object.keys(queries).forEach: every db.all is issued
SqlDashboardStart(caller) ==
    /\ backend = "sql"
    /\ dash.phase # "running"
    /\ IF requireAdmin(caller)
       THEN /\ dash' = [DashboardIdle EXCEPT !.phase = "running", !.pending = DashboardKeys]
            /\ UNCHANGED res
       ELSE /\ res' = [op |-> "GET /admin/dashboard", status |-> 403, req |-> <<>>, body |-> {}]
            /\ UNCHANGED dash
    /\ UNCHANGED <<backend, now, fileVars, sqlVars, clientVars, msgVars, ioVars, inFlight, cAuth,
                   fOffers>>

\* the callback of one db.all: `ok` is whether the query came back without err
SqlDashboardCallback(key, ok) ==
    /\ backend = "sql"
    /\ dash.phase = "running"
    /\ key \in dash.pending
    /\ LET results == (key :> DashboardResult(key, ok)) @@ dash.results
           completed == dash.completed + 1
           done == DashboardAllDone(completed)
       IN /\ dash' = [phase |-> IF dash.pending = {key} THEN "done" ELSE "running",
                      pending |-> dash.pending \ {key},
                      failed |-> IF ok THEN dash.failed ELSE dash.failed \cup {key},
                      results |-> results, completed |-> completed,
                      sent |-> IF done THEN dash.sent + 1 ELSE dash.sent]
          /\ res' = IF done
                    THEN [op |-> "GET /admin/dashboard", status |-> 200, req |-> <<>>,
                          body |-> {results}]
                    ELSE res
    /\ UNCHANGED <<backend, now, fileVars, sqlVars, clientVars, msgVars, ioVars, inFlight, cAuth,
                   fOffers>>

\* ---- messages (routes/messages).  The admin_messages schema is not among
\* the sources: a new row is unread and has no response ----
\* .trim(): leading and trailing blanks go
RECURSIVE trimStart(_)
trimStart(text) ==
    IF text # <<>> /\ Head(text) = " " THEN trimStart(Tail(text)) ELSE text

RECURSIVE trimEnd(_)
trimEnd(text) ==
    IF text # <<>> /\ text[Len(text)] = " " THEN trimEnd(SubSeq(text, 1, Len(text) - 1))
    ELSE text

trim(text) == trimEnd(trimStart(text))

\* .escape(): the characters of HTML markup become entities
EscapedChar(ch) ==
    CASE ch = "&" -> <<"&", "a", "m", "p", ";">>
      [] ch = "<" -> <<"&", "l", "t", ";">>
      [] ch = ">" -> <<"&", "g", "t", ";">>
      [] ch = "/" -> <<"&", "#", "x", "2", "F", ";">>
      [] OTHER -> <<ch>>

RECURSIVE escape(_)
escape(text) ==
    IF text = <<>> THEN <<>> ELSE EscapedChar(Head(text)) \o escape(Tail(text))

\* body(...).notEmpty().trim().escape(): what req.body holds afterwards
Sanitized(text) == escape(trim(text))

\* a text column that holds NULL (texts being sequences of characters)
NullText == <<NULL>>

\* INSERT INTO admin_messages (message_id, user_id, subject, message_content)
SqlNewMessage(id, caller, body, clock) ==
    [id |-> id, user_id |-> caller.id, subject |-> Sanitized(body.subject),
     message_content |-> Sanitized(body.messageContent), admin_response |-> NullText,
     message_status |-> "unread", updated_at |-> clock]

\* POST /messages
SqlCreateMessage(caller, body) ==
    /\ backend = "sql"
    /\ LET status == IF body.subject = <<>> \/ body.messageContent = <<>> THEN 400 ELSE 201 IN
        /\ status = 201 => lastID["admin_messages"] < MaxMessages
        /\ messages' = IF status = 201
                       THEN messages \cup
                                {SqlNewMessage(NextRowId("admin_messages"), caller, body, now)}
                       ELSE messages
        /\ lastID' = IF status = 201 THEN [lastID EXCEPT !["admin_messages"] = @ + 1]
                     ELSE lastID
        /\ res' = [op |-> "POST /messages", status |-> status, req |-> <<>>, body |-> {}]
    /\ UNCHANGED <<backend, now, fileVars, users, menu_items, bookings, booking_items, receipts,
                   clientVars, fMessages, ioVars, extVars>>

\* SELECT * FROM admin_messages WHERE user_id = ?
SqlOwnMessages(rows, caller) == { m \in rows : m.user_id = caller.id }

\* GET /messages/my-messages (the first page holds every row of the model)
SqlMyMessages(caller) ==
    /\ backend = "sql"
    /\ res' = [op |-> "GET /messages/my-messages", status |-> 200, req |-> [caller |-> caller],
               body |-> SqlOwnMessages(messages, caller)]
    /\ UNCHANGED <<backend, now, fileVars, sqlVars, clientVars, msgVars, ioVars, extVars>>

\* GET /messages/:id: SELECT * FROM admin_messages WHERE id = ? AND user_id = ?
SqlGetMessage(caller, id) ==
    /\ backend = "sql"
    /\ LET found == RowsById(SqlOwnMessages(messages, caller), id)
           req == [caller |-> caller, id |-> id]
       IN res' = IF found = {}
                 THEN [op |-> "GET /messages/:id", status |-> 404, req |-> req, body |-> {}]
                 ELSE [op |-> "GET /messages/:id", status |-> 200, req |-> req, body |-> found]
    /\ UNCHANGED <<backend, now, fileVars, sqlVars, clientVars, msgVars, ioVars, extVars>>

\* POST /messages/admin/:id/respond: the status the handler answers with
SqlRespondStatus(caller, adminResponse) ==
    IF ~requireAdmin(caller) THEN 403
    ELSE IF adminResponse = <<>> THEN 400
    ELSE 200

\* a faulty variant: the UPDATE leaves message_status as it is
SqlRespondedMessagesKeepStatus(rows, id, adminResponse, clock) ==
    { IF m.id = id
      THEN [m EXCEPT !.admin_response = Sanitized(adminResponse), !.updated_at = clock]
      ELSE m : m \in rows }

\* UPDATE admin_messages SET admin_response = ?, message_status = 'replied',
\* updated_at = CURRENT_TIMESTAMP WHERE id = ?
SqlRespondedMessages(rows, id, adminResponse, clock) ==
    { IF m.id = id
      THEN [m EXCEPT !.admin_response = Sanitized(adminResponse),
                     !.message_status = "replied", !.updated_at = clock]
      ELSE m : m \in rows }

SqlRespond(caller, id, adminResponse) ==
    /\ backend = "sql"
    /\ LET status == SqlRespondStatus(caller, adminResponse) IN
        /\ messages' = IF status = 200
                       THEN SqlRespondedMessages(messages, id, adminResponse, now)
                       ELSE messages
        /\ res' = [op |-> "POST /messages/admin/:id/respond", status |-> status, req |-> <<>>,
                   body |-> {}]
    /\ UNCHANGED <<backend, now, fileVars, sqlVars, clientVars, fMessages, ioVars, extVars>>

\* PATCH /messages/admin/:id/status
SqlPatchMessageStatus(caller, id, status) ==
    /\ backend = "sql"
    /\ LET answer == IF ~requireAdmin(caller) THEN 403
                     ELSE IF status \notin MessageStatuses THEN 400
                     ELSE 200
       IN
        /\ messages' = IF answer = 200
                       THEN { IF m.id = id
                              THEN [m EXCEPT !.message_status = status, !.updated_at = now]
                              ELSE m : m \in messages }
                       ELSE messages
        /\ res' = [op |-> "PATCH /messages/admin/:id/status", status |-> answer,
                   req |-> [caller |-> caller, id |-> id, status |-> status], body |-> {}]
    /\ UNCHANGED <<backend, now, fileVars, sqlVars, clientVars, fMessages, ioVars, extVars>>

(***************************************************************************)
(* auth.js and js/api.js: the browser-side AuthSystem over the APIClient.  *)
(* null and an absent localStorage key are the empty set, a value is the   *)
(* set that holds it.                                                      *)
(***************************************************************************)
\* the page as it loads with an empty localStorage: new APIClient() and new
\* AuthSystem(); logout is the position of the logout() call
LoggedOutPage ==
    [currentUser |-> {}, token |-> {}, dsis_user |-> {}, dsis_token |-> {}, logout |-> "none"]

\* a faulty variant: the token is dropped from memory only
setTokenInMemory(auth, token) == [auth EXCEPT !.token = token]

\* APIClient.setToken(token)
setToken(auth, token) == [auth EXCEPT !.token = token, !.dsis_token = token]

\* what api.login(email, password) resolves with; no answer when the server
\* answers an error status and request() throws
ApiLoginResponse(req) ==
    IF backend = "file"
    THEN IF FileLoginStatus(fUsers, req) = 200
         THEN { [user |-> WithoutField(u, "password"), token |-> {}] :
                u \in FileLoginMatches(fUsers, req) }
         ELSE {}
    ELSE IF SqlLoginStatus(users, req) = 200
         THEN { [user |-> WithoutField(u, "password_hash"), token |-> {generateToken(u)}] :
                u \in SqlLoginRows(users, req) }
         ELSE {}

\* AuthSystem.login(email, password)
ClientLogin(req) ==
    /\ cAuth.logout # "awaiting"
    /\ cAuth' = IF ApiLoginResponse(req) = {} THEN cAuth
                ELSE LET response == CHOOSE r \in ApiLoginResponse(req) : TRUE IN
                     [setToken(cAuth, response.token) EXCEPT
                         !.currentUser = {response.user},
                         !.dsis_token = IF response.token # {} THEN response.token ELSE @,
                         !.dsis_user = {response.user},
                         !.logout = "none"]
    /\ res' = [op |-> "login()", status |-> IF ApiLoginResponse(req) = {} THEN 401 ELSE 200,
               req |-> req, body |-> {}]
    /\ UNCHANGED <<backend, now, fileVars, sqlVars, clientVars, msgVars, ioVars, dash,
                   inFlight, fOffers>>

\* AuthSystem.logout(): window.confirm answered with Cancel
LogoutDeclined ==
    /\ cAuth.currentUser # {}
    /\ cAuth.logout # "awaiting"
    /\ cAuth' = [cAuth EXCEPT !.logout = "declined"]
    /\ UNCHANGED <<backend, now, res, fileVars, sqlVars, clientVars, msgVars, ioVars, dash,
                   inFlight, fOffers>>

\* AuthSystem.logout(): window.confirm answered with OK; api.logout() has
\* sent POST /auth/logout and the function waits for it
LogoutConfirmed ==
    /\ cAuth.currentUser # {}
    /\ cAuth.logout # "awaiting"
    /\ cAuth' = [cAuth EXCEPT !.logout = "awaiting"]
    /\ UNCHANGED <<backend, now, res, fileVars, sqlVars, clientVars, msgVars, ioVars, dash,
                   inFlight, fOffers>>

\* the request settles.  ok: the server has answered 'Logout successful'
\* and api.logout() goes on to setToken(null); otherwise request() throws
\* (no connection, or an error status) and logout() catches it.  Either
\* way logout() then runs to its end.
LogoutSettles(ok) ==
    /\ cAuth.logout = "awaiting"
    /\ LET afterCall == IF ok THEN setToken(cAuth, {}) ELSE cAuth IN
        cAuth' = [setToken([afterCall EXCEPT !.currentUser = {}, !.dsis_user = {}], {})
                     EXCEPT !.logout = IF ok THEN "done" ELSE "done after error"]
    /\ res' = IF ok
              THEN [op |-> "POST /auth/logout", status |-> 200, req |-> <<>>, body |-> {}]
              ELSE res
    /\ UNCHANGED <<backend, now, fileVars, sqlVars, clientVars, msgVars, ioVars, dash,
                   inFlight, fOffers>>

(***************************************************************************)
(* receipt.js: the browser-side ReceiptSystem.                             *)
(***************************************************************************)
\* 'R' + number.toString().padStart(6, '0')
ClientReceiptNumber(number) ==
    <<"R">> \o padStart(ToDigits(number), ReceiptNumberDigits, "0")

\* getNextReceiptNumber(): the reduce over this.receipts, plus one
RECURSIVE MaxReceiptNumber(_, _)
MaxReceiptNumber(stored, max) ==
    IF stored = <<>> THEN max
    ELSE LET number == parseInt(substring1(Head(stored).receiptNumber)) IN
         MaxReceiptNumber(Tail(stored), IF number > max THEN number ELSE max)

getNextReceiptNumber(stored) == MaxReceiptNumber(stored, 0) + 1

\* generateReceiptNumber()
ClientGenerateReceiptNumber ==
    /\ nextReceiptNumber <= MaxReceipts
    /\ res' = [op |-> "generateReceiptNumber", status |-> 0,
               req |-> <<>>, body |-> {ClientReceiptNumber(nextReceiptNumber)}]
    /\ nextReceiptNumber' = nextReceiptNumber + 1
    /\ cIssued' = cIssued \cup {nextReceiptNumber}
    /\ UNCHANGED <<backend, now, fileVars, sqlVars, cReceipts, msgVars, ioVars, extVars>>

\* displayReceipt(receipt), for the receipt a generate request returned:
\* the receipt is kept in localStorage unless its receiptId is there already
ClientDisplayReceipt ==
    /\ res.op \in {"POST /api/receipts/generate", "POST /receipts/generate"}
    /\ res.status = 201
    /\ \E receipt \in res.body :
        cReceipts' = IF \E i \in DOMAIN cReceipts : cReceipts[i].receiptId = receipt.receiptId
                     THEN cReceipts
                     ELSE Append(cReceipts, [receiptId |-> receipt.receiptId,
                                             receiptNumber |-> receipt.receiptNumber])
    /\ UNCHANGED <<backend, now, res, fileVars, sqlVars, nextReceiptNumber, cIssued,
                   msgVars, ioVars, extVars>>

\* new ReceiptSystem(): a page load
ClientLoad ==
    /\ nextReceiptNumber' = getNextReceiptNumber(cReceipts)
    /\ cIssued' = {}
    /\ res' = [op |-> "new ReceiptSystem", status |-> 0, req |-> <<>>, body |-> {}]
    /\ UNCHANGED <<backend, now, fileVars, sqlVars, cReceipts, msgVars, ioVars, extVars>>

(***************************************************************************)
(* The state after construction: initializeData() has written the sample   *)
(* files; the database holds its administrator; the page has just loaded.  *)
(***************************************************************************)
Init ==
    /\ backend \in {"file", "sql"}
    /\ now = InitialClock
    /\ res = [op |-> "none", status |-> 0, req |-> <<>>, body |-> {}]
    /\ fUsers = sampleUsers
    /\ fBookings = <<>>
    /\ fReceipts = <<>>
    /\ users = seedUsers
    /\ menu_items = {}
    /\ bookings = {}
    /\ booking_items = <<>>
    /\ receipts = {}
    /\ lastID = [t \in {"users", "menu_items", "bookings", "receipts", "admin_messages"} |->
                    IF t = "users" THEN Cardinality(seedUsers) ELSE 0]
    /\ cReceipts = <<>>
    /\ nextReceiptNumber = getNextReceiptNumber(<<>>)
    /\ cIssued = {}
    /\ fMessages = <<>>
    /\ messages = {}
    /\ diskWritable = TRUE
    /\ insertItemQueue = <<>>
    /\ deleting = {}
    /\ dash = DashboardIdle
    /\ inFlight = {}
    /\ cAuth = LoggedOutPage
    /\ fOffers = <<>>

(***************************************************************************)
(* Request bodies the model sends.                                         *)
(***************************************************************************)
Dates == {"2026-12-24", "2026-12-25"}

OrderLines(ids, quantities) == [itemId : ids, quantity : quantities]
Orders(ids, quantities, maxLines) ==
    UNION { [1..n -> OrderLines(ids, quantities)] : n \in 0..maxLines }

FileRegisterBodies ==
    [firstName : {"Ann"}, lastName : {Missing, "Lee"},
     email : {Missing, "customer@test.com", "ann@x.com", "ann@y.com"},
     mobileNumber : {Missing}, password : {"secret1", "hunter22", "short"},
     repeatPassword : {"secret1", "hunter22", "short"}]

SqlRegisterBodies ==
    [username : {"ann", "bob", "al"}, email : {"ann@x.com", "Ann@x.com", "bob@x.com", "nobody"},
     password : {"secret1", "short"}, firstName : {"Ann"}, lastName : {"Lee", "L"}]

FileBookingBodies(orders) ==
    [eventType : {"Wedding"}, eventDate : Dates, eventVenue : {Missing, "Hall"},
     numGuests : {50}, menuItemsSent : {TRUE}, menuItems : orders,
     customerName : {"Ann Lee"}, customerEmail : {"ann@x.com"}]
    \cup
    [eventType : {"Wedding"}, eventDate : Dates, eventVenue : {"Hall"},
     numGuests : {50}, menuItemsSent : {FALSE}, menuItems : {<<>>},
     customerName : {"Ann Lee"}, customerEmail : {"ann@x.com"}]

FileStatusBodies == BookingStatuses \cup {"archived"}

SqlBookingBodies(dates, orders) ==
    [eventType : {"Wedding"}, eventDate : dates, eventVenue : {"Hall"},
     numGuests : {50}, menuItems : orders]

Prices == {Peso(50), Peso(100)}

MenuCreateBodies ==
    [itemName : {"Adobo"}, category : {"Main Course"}, pricePerServing : Prices \cup {-1},
     isAvailable : {TRUE}]

MenuUpdateBodies ==
    [pricePerServing : Prices \cup {-1}] \cup [isAvailable : BOOLEAN]
        \cup [description : {"new"}] \cup [id : {7}]

(***************************************************************************)
(* Specifications.  Each takes the handlers of one part of the system.     *)
(***************************************************************************)
\* accounts, both backends
NextAuth ==
    \/ \E req \in FileRegisterBodies : FileRegister(req)
    \/ \E req \in SqlRegisterBodies : SqlRegister(req)

SpecAuth == Init /\ [][NextAuth]_vars

\* the date calendar of the file-backed server
FileDateOrders == Orders({1, 99}, {1}, 1)

NextFileDates ==
    \/ \E req \in FileBookingBodies(FileDateOrders) : FileCreateBooking(req)
    \/ \E id \in 1..MaxBookings, status \in FileStatusBodies : FilePatchBookingStatus(id, status)

SpecFileDates == Init /\ [][NextFileDates]_vars

\* booking totals and the catalog, both backends
\* orders that name each item once, in the order of the ids
AscendingOrders(ids, quantities, maxLines) ==
    { o \in Orders(ids, quantities, maxLines) :
        \A i, j \in DOMAIN o : i < j => o[i].itemId < o[j].itemId }

TotalsFileOrders ==
    AscendingOrders({1, 6}, {3}, MaxLines)
        \cup { <<[itemId |-> 1, quantity |-> 1], [itemId |-> 1, quantity |-> 3]>>,
                <<[itemId |-> 99, quantity |-> 1]>> }

TotalsSqlOrders ==
    AscendingOrders({1, 2}, {3}, MaxLines)
        \cup { <<[itemId |-> 1, quantity |-> 1], [itemId |-> 1, quantity |-> 3]>>,
                <<[itemId |-> MaxMenu + 1, quantity |-> 3]>>,
                <<[itemId |-> 1, quantity |-> 0]>> }

PriceUpdateBodies == [pricePerServing : Prices \cup {-1}]

NextTotals ==
    \/ \E req \in FileBookingBodies(TotalsFileOrders) : FileCreateBooking(req)
    \/ \E caller \in Callers, body \in MenuCreateBodies : MenuCreate(caller, body)
    \/ \E caller \in Callers, id \in 1..MaxMenu, updates \in PriceUpdateBodies :
            MenuUpdate(caller, id, updates)
    \/ \E caller \in Callers,
          body \in SqlBookingBodies({"2026-12-24", "someday"}, TotalsSqlOrders) :
            SqlCreateBooking(caller, body)

SpecTotals == Init /\ [][NextTotals]_vars

\* the catalog and the booking lines that refer to it, relational backend
CatalogOrders == { <<[itemId |-> id, quantity |-> 3]>> : id \in {1, 2, MaxMenu + 1} }

NextCatalog ==
    \/ \E caller \in Callers, body \in MenuCreateBodies : MenuCreate(caller, body)
    \/ \E caller \in Callers, id \in 1..MaxMenu, updates \in MenuUpdateBodies :
            MenuUpdate(caller, id, updates)
    \/ \E caller \in Callers, id \in 1..MaxMenu : MenuDelete(caller, id)
    \/ \E caller \in Callers, id \in 1..MaxMenu : MenuToggleAvailability(caller, id)
    \/ \E caller \in Callers, body \in SqlBookingBodies({"2026-12-24"}, CatalogOrders) :
            SqlCreateBooking(caller, body)
    \/ \E caller \in Callers, id \in 1..MaxBookings : SqlDeleteBooking(caller, id)

SpecCatalog == Init /\ [][NextCatalog]_vars

\* who may read which booking, relational backend
AccessRegisterBodies ==
    { [username |-> "ann", email |-> "ann@x.com", password |-> "secret1",
       firstName |-> "Ann", lastName |-> "Lee"],
      [username |-> "bob", email |-> "bob@x.com", password |-> "secret1",
       firstName |-> "Bob", lastName |-> "Cruz"] }

AccessMenuBodies ==
    { [itemName |-> "Adobo", category |-> "Main Course", pricePerServing |-> Peso(100),
       isAvailable |-> TRUE] }

NextAccess ==
    \/ \E req \in AccessRegisterBodies : SqlRegister(req)
    \/ \E caller \in Callers, body \in AccessMenuBodies : MenuCreate(caller, body)
    \/ \E caller \in Callers,
          body \in SqlBookingBodies(Dates, Orders({1}, {1}, 1)) : SqlCreateBooking(caller, body)
    \/ \E caller \in Callers : SqlListBookings(caller)
    \/ \E caller \in Callers, id \in 1..MaxBookings : SqlGetBooking(caller, id)

SpecAccess == Init /\ [][NextAccess]_vars

\* receipts: both backends and the page
ReceiptOrders == { <<[itemId |-> 1, quantity |-> 2]>>,
                   <<[itemId |-> 1, quantity |-> 3], [itemId |-> 6, quantity |-> 1]>> }

ReceiptBodies ==
    [bookingId : 1..MaxBookings, paymentMethod : {Missing}, paymentStatus : {Missing, "paid"}]

RandomSuffixes == {"K3J9Q", "7XW2M"}

NextReceipt ==
    \/ \E req \in FileBookingBodies(ReceiptOrders) : FileCreateBooking(req)
    \/ \E body \in ReceiptBodies :
            FileGenerateReceipt(body.bookingId, body.paymentMethod, body.paymentStatus)
    \/ \E caller \in Callers, body \in AccessMenuBodies : MenuCreate(caller, body)
    \/ \E caller \in Callers,
          body \in SqlBookingBodies({"2026-12-24"}, Orders({1}, {3}, 1)) :
            SqlCreateBooking(caller, body)
    \/ \E caller \in Callers, body \in ReceiptBodies, suffix \in RandomSuffixes,
          accepted \in BOOLEAN : SqlGenerateReceipt(caller, body, suffix, accepted)
    \/ Tick
    \/ ClientGenerateReceiptNumber
    \/ ClientDisplayReceipt
    \/ ClientLoad

SpecReceipt == Init /\ [][NextReceipt]_vars

\* ---- the relational booking handlers statement by statement ----
LinesOrders == { <<[itemId |-> 1, quantity |-> 1]>>,
                 <<[itemId |-> 1, quantity |-> 1], [itemId |-> 1, quantity |-> 2]>> }

NextLines ==
    \/ \E req \in AccessRegisterBodies : SqlRegister(req)
    \/ \E caller \in Callers, body \in AccessMenuBodies : MenuCreate(caller, body)
    \/ \E caller \in Callers, body \in SqlBookingBodies({"2026-12-24"}, LinesOrders) :
          SqlCreateBookingRespond(caller, body)
    \/ \E ok \in BOOLEAN : SqlInsertItemRun(ok)
    \/ \E caller \in Callers, id \in 1..MaxBookings : SqlGetBooking(caller, id)
    \/ \E caller \in Callers, id \in 1..MaxBookings : SqlDeleteBookingItems(caller, id)
    \/ \E id \in 1..MaxBookings : SqlDeleteBookingRow(id)

SpecLines == Init /\ [][NextLines]_vars

\* ---- status changes of relational bookings ----
StatusOrders == { <<[itemId |-> 1, quantity |-> 1]>> }
StatusRegisterBodies == { req \in AccessRegisterBodies : req.username = "ann" }

NextStatus ==
    \/ \E req \in StatusRegisterBodies : SqlRegister(req)
    \/ \E caller \in Callers, body \in AccessMenuBodies : MenuCreate(caller, body)
    \/ \E caller \in Callers, body \in SqlBookingBodies({"2026-12-24"}, StatusOrders) :
          SqlCreateBooking(caller, body)
    \/ \E caller \in Callers, id \in 1..(MaxBookings + 1), status \in BookingStatuses :
          SqlPatchBookingStatus(caller, id, status)

SpecStatus == Init /\ [][NextStatus]_vars

\* ---- relational receipts: who may create one and change its payment status ----
PaymentGenerateBodies ==
    [bookingId : {1, MaxBookings + 1}, paymentMethod : {Missing}, paymentStatus : {Missing}]

PaymentUpdateStatuses == {"paid", "refunded"}
FirstCustomers == { c \in Callers : c.id = 2 }

NextPayment ==
    \/ \E req \in AccessRegisterBodies : SqlRegister(req)
    \/ \E caller \in Callers, body \in AccessMenuBodies : MenuCreate(caller, body)
    \/ \E caller \in FirstCustomers, body \in SqlBookingBodies({"2026-12-24"}, StatusOrders) :
          SqlCreateBooking(caller, body)
    \/ \E caller \in Callers, body \in PaymentGenerateBodies, accepted \in BOOLEAN :
          SqlGenerateReceipt(caller, body, "K3J9Q", accepted)
    \/ \E caller \in Callers, id \in 1..(MaxReceipts + 1),
          paymentStatus \in PaymentUpdateStatuses :
            SqlUpdatePaymentStatus(caller, id, paymentStatus)

SpecPayment == Init /\ [][NextPayment]_vars

\* ---- logging in ----
LoginRegisterBodies ==
    { [firstName |-> "Ann", lastName |-> "Lee", email |-> "ann@x.com", mobileNumber |-> Missing,
       password |-> "secret1", repeatPassword |-> "secret1"] }

FileLoginBodies ==
    [email : {Missing, "admin@dsis.com", "ann@x.com", "ann@y.com"},
     password : {Missing, "admin123", "secret1"}]

SqlLoginBodies ==
    [email : {"admin@dsis.com", "ann@x.com", "Ann@x.com", "ann@y.com", "nobody"},
     password : {"admin123", "secret1", "short"}]

NextLogin ==
    \/ \E req \in LoginRegisterBodies : FileRegister(req)
    \/ \E req \in FileLoginBodies : FileLogin(req)
    \/ \E req \in AccessRegisterBodies : SqlRegister(req)
    \/ \E caller \in Callers, id \in 1..MaxUsers, isActive \in BOOLEAN :
          AdminSetUserStatus(caller, id, isActive)
    \/ \E req \in SqlLoginBodies : SqlLogin(req)

SpecLogin == Init /\ [][NextLogin]_vars

\* ---- answering messages ----
RespondTexts == { <<>>, <<" ", "<", "b", ">">> }
RespondMessageBodies ==
    { [userEmail |-> "ann@x.com", userName |-> Missing, subject |-> <<"h", "i">>,
       messageContent |-> <<"?">>] }

NextRespond ==
    \/ \E req \in RespondMessageBodies : FileCreateMessage(req)
    \/ \E id \in 1..(MaxMessages + 1), text \in RespondTexts : FileRespond(id, text)
    \/ \E id \in 1..MaxMessages : FilePatchMessageStatus(id, "read")
    \/ \E caller \in Callers, body \in RespondMessageBodies : SqlCreateMessage(caller, body)
    \/ \E caller \in Callers, id \in 1..(MaxMessages + 1), text \in RespondTexts :
          SqlRespond(caller, id, text)
    \/ \E caller \in Callers, id \in 1..MaxMessages : SqlPatchMessageStatus(caller, id, "read")
    \/ Tick

SpecRespond == Init /\ [][NextRespond]_vars

\* ---- reading messages ----
InboxMessageBodies ==
    { [userEmail |-> e, userName |-> Missing, subject |-> <<"h", "i">>,
       messageContent |-> <<"?">>] : e \in {Missing, "ann@x.com", "customer@test.com"} }

NextInbox ==
    \/ \E req \in LoginRegisterBodies : FileRegister(req)
    \/ \E req \in InboxMessageBodies : FileCreateMessage(req)
    \/ \E caller \in FileCallers, email \in {Missing, "ann@x.com", "customer@test.com"} :
          FileMyMessages(caller, email)
    \/ \E caller \in FileCallers : FileAdminMessages(caller)
    \/ \E req \in AccessRegisterBodies : SqlRegister(req)
    \/ \E caller \in Callers, body \in RespondMessageBodies : SqlCreateMessage(caller, body)
    \/ \E caller \in Callers : SqlMyMessages(caller)
    \/ \E caller \in Callers, id \in 1..(MaxMessages + 1) : SqlGetMessage(caller, id)

SpecInbox == Init /\ [][NextInbox]_vars

\* ---- revenue on the dashboard ----
RevenueOrders == { <<[itemId |-> 1, quantity |-> 1]>> }
RevenueBodies ==
    [bookingId : {1}, paymentMethod : {Missing}, paymentStatus : {Missing, "paid"}]

NextRevenue ==
    \/ \E req \in FileBookingBodies(RevenueOrders) : FileCreateBooking(req)
    \/ \E body \in RevenueBodies :
          FileGenerateReceipt(body.bookingId, body.paymentMethod, body.paymentStatus)
    \/ FileDashboard
    \/ \E caller \in Callers, body \in AccessMenuBodies : MenuCreate(caller, body)
    \/ \E caller \in Callers, body \in SqlBookingBodies({"2026-12-24"}, RevenueOrders) :
          SqlCreateBooking(caller, body)
    \/ \E caller \in Callers, body \in RevenueBodies, accepted \in BOOLEAN :
          SqlGenerateReceipt(caller, body, "K3J9Q", accepted)
    \/ \E caller \in Callers, id \in 1..MaxReceipts, paymentStatus \in PaymentStatuses :
          SqlUpdatePaymentStatus(caller, id, paymentStatus)
    \/ \E caller \in Callers : SqlDashboard(caller)

SpecRevenue == Init /\ [][NextRevenue]_vars

\* ---- file-backed writes on a disk that may fail ----
StorageBookingBodies ==
    { req \in FileBookingBodies(RevenueOrders) :
        req.eventVenue # Missing /\ req.menuItemsSent /\ req.eventDate = "2026-12-24" }

StorageReceiptBodies == [bookingId : 1..MaxBookings, paymentStatus : {"paid"}]

NextStorage ==
    \/ DiskChanges
    \/ \E req \in LoginRegisterBodies : FileRegister(req)
    \/ \E req \in StorageBookingBodies : FileCreateBooking(req)
    \/ \E id \in 1..MaxBookings : FilePatchBookingStatus(id, "cancelled")
    \/ \E body \in StorageReceiptBodies :
          FileGenerateReceipt(body.bookingId, Missing, body.paymentStatus)
    \/ \E req \in RespondMessageBodies : FileCreateMessage(req)
    \/ \E id \in 1..MaxMessages : FileRespond(id, <<"o", "k">>)
    \/ \E id \in 1..MaxMessages : FilePatchMessageStatus(id, "read")

SpecStorage == Init /\ [][NextStorage]_vars

\* ---- the dashboard's fan-in ----
NextDashboard ==
    \/ \E caller \in Callers, body \in AccessMenuBodies : MenuCreate(caller, body)
    \/ \E req \in StatusRegisterBodies : SqlRegister(req)
    \/ \E caller \in Callers : SqlDashboardStart(caller)
    \/ \E key \in DashboardKeys, ok \in BOOLEAN : SqlDashboardCallback(key, ok)

SpecDashboard == Init /\ [][NextDashboard]_vars

ConcurrentBookingBodies ==
    { req \in FileBookingBodies(RevenueOrders) : req.eventVenue # Missing /\ req.menuItemsSent }

\* the file-backed server with requests of several clients waiting at once
NextConcurrent ==
    \/ \E client \in Clients, req \in ConcurrentBookingBodies : FileBookingArrives(client, req)
    \/ \E r \in inFlight : FileBookingHandled(r)
    \/ \E r \in inFlight : FileAnswerReceived(r)
    \/ \E id \in 1..MaxBookings : FilePatchBookingStatus(id, "cancelled")

SpecConcurrent == Init /\ [][NextConcurrent]_vars

\* ---- booking status: every route that writes it ----
StatusUpdateBodies == FileStatusBodies \cup {Missing}

NextBookingStatus ==
    \/ \E req \in StorageBookingBodies : FileCreateBooking(req)
    \/ \E id \in 1..MaxBookings, status \in StatusUpdateBodies :
          FilePatchBookingStatus(id, status)
    \/ \E req \in StatusRegisterBodies : SqlRegister(req)
    \/ \E caller \in Callers, body \in AccessMenuBodies : MenuCreate(caller, body)
    \/ \E caller \in Callers, body \in SqlBookingBodies({"2026-12-24"}, StatusOrders) :
          SqlCreateBooking(caller, body)
    \/ \E caller \in Callers, id \in 1..MaxBookings, status \in StatusUpdateBodies :
          SqlPatchBookingStatus(caller, id, status)
    \/ \E caller \in Callers, id \in 1..MaxBookings, status \in StatusUpdateBodies :
          AdminPatchBookingStatus(caller, id, status)

SpecBookingStatus == Init /\ [][NextBookingStatus]_vars

\* ---- message status: every route that writes it ----
MessageStatusBodies == {"unread", "read", "replied", "archived", Missing}

NextMessageStatus ==
    \/ \E req \in RespondMessageBodies : FileCreateMessage(req)
    \/ \E id \in 1..MaxMessages : FileRespond(id, <<"o", "k">>)
    \/ \E id \in 1..(MaxMessages + 1), status \in MessageStatusBodies :
          FilePatchMessageStatus(id, status)
    \/ \E req \in StatusRegisterBodies : SqlRegister(req)
    \/ \E caller \in Callers, body \in RespondMessageBodies : SqlCreateMessage(caller, body)
    \/ \E caller \in Callers, id \in 1..MaxMessages : SqlRespond(caller, id, <<"o", "k">>)
    \/ \E caller \in Callers, id \in 1..(MaxMessages + 1), status \in MessageStatusBodies :
          SqlPatchMessageStatus(caller, id, status)

SpecMessageStatus == Init /\ [][NextMessageStatus]_vars

\* ---- accounts: register, login, profile and password, both backends ----
AccountRegisterBodies ==
    [firstName : {"Ann"}, lastName : {"Lee"}, email : {"ann@x.com", "ann@y.com"},
     mobileNumber : {Missing}, password : {"secret1"}, repeatPassword : {"secret1"},
     userType : {"admin"}]

AccountLoginBodies == [email : {"ann@x.com"}, password : {"secret1", "hunter22"}]

AccountProfileBodies ==
    [email : {Missing, "ann@x.com"}, username : {Missing, "customer", "annie"},
     firstName : {Missing}, lastName : {Missing}, phoneNumber : {Missing, "0917"},
     userType : {"admin"}]

FileChangePasswordBodies ==
    [email : {"ann@x.com", "nobody@x.com"}, currentPassword : {"secret1", "hunter22"},
     newPassword : {"hunter22", "short"}]

FileForgotPasswordBodies ==
    [email : {"ann@x.com"}, mobileNumber : {Missing, "0917", "0000"},
     newPassword : {"secret1", "short"}]

SqlChangePasswordBodies ==
    [currentPassword : {"secret1", "hunter22", "short"},
     newPassword : {"secret1", "hunter22", "short"}]

NextAccounts ==
    \/ \E req \in AccountRegisterBodies : FileRegister(req)
    \/ \E req \in AccountLoginBodies : FileLogin(req)
    \/ \E req \in AccountProfileBodies : FileUpdateProfile(req)
    \/ \E req \in FileChangePasswordBodies : FileChangePassword(req)
    \/ \E req \in FileForgotPasswordBodies : FileForgotPassword(req)
    \/ \E req \in StatusRegisterBodies : SqlRegister(req)
    \/ \E req \in AccountLoginBodies : SqlLogin(req)
    \/ \E caller \in Callers, body \in AccountProfileBodies : SqlUpdateProfile(caller, body)
    \/ \E caller \in Callers, body \in SqlChangePasswordBodies :
          SqlChangePassword(caller, body)

SpecAccounts == Init /\ [][NextAccounts]_vars

\* ---- the browser session: login and logout ----
ClientLoginBodies ==
    [email : {"admin@dsis.com", "ann@x.com", "customer@test.com"},
     password : {"admin123", "secret1", "customer123"}]

NextLogout ==
    \/ \E req \in LoginRegisterBodies : FileRegister(req)
    \/ \E req \in StatusRegisterBodies : SqlRegister(req)
    \/ \E req \in ClientLoginBodies : ClientLogin(req)
    \/ LogoutDeclined
    \/ LogoutConfirmed
    \/ \E ok \in BOOLEAN : LogoutSettles(ok)

\* fetch() settles: the promise of the logout request is resolved or rejected
SpecLogoutFair ==
    Init /\ [][NextLogout]_vars /\ WF_vars(\E ok \in BOOLEAN : LogoutSettles(ok))

\* ---- the ids of the entity files ----
OfferBodies == [title : {Missing, "Promo"}, active : {TRUE}]

NextIds ==
    \/ DiskChanges
    \/ \E req \in LoginRegisterBodies : FileRegister(req)
    \/ \E req \in StorageBookingBodies : FileCreateBooking(req)
    \/ \E id \in 1..MaxBookings : FilePatchBookingStatus(id, "cancelled")
    \/ \E body \in StorageReceiptBodies :
          FileGenerateReceipt(body.bookingId, Missing, body.paymentStatus)
    \/ \E req \in RespondMessageBodies : FileCreateMessage(req)
    \/ \E req \in OfferBodies : FileCreateOffer(req)
    \/ \E id \in 1..MaxOfferId : FileDeleteOffer(id)

SpecIds == Init /\ [][NextIds]_vars

(***************************************************************************)
(* Properties.                                                             *)
(***************************************************************************)
RECURSIVE LineSum(_)
LineSum(lines) ==
    IF lines = <<>> THEN 0
    ELSE Head(lines).unitPrice * Head(lines).quantity + LineSum(Tail(lines))

RECURSIVE RowSum(_)
RowSum(rows) ==
    IF rows = <<>> THEN 0
    ELSE Head(rows).unit_price * Head(rows).quantity + RowSum(Tail(rows))

RowsOfBooking(id) == SelectSeq(booking_items, LAMBDA l : l.booking_id = id)

TotalsAgree ==
    /\ \A i \in DOMAIN fBookings : fBookings[i].totalAmount = LineSum(fBookings[i].items)
    /\ \A b \in bookings : b.total_amount = RowSum(RowsOfBooking(b.id))

\* the lines a createBooking step stores carry the catalog price the step found
SnapshotAtCreation ==
    /\ (res'.op = "POST /api/bookings" /\ fBookings' # fBookings) =>
            \A l \in Range(fBookings'[Len(fBookings')].items) :
                \E m \in Range(sampleMenu) : m.id = l.itemId /\ l.unitPrice = m.pricePerServing
    /\ (res'.op = "POST /bookings" /\ bookings' # bookings) =>
            \A i \in DOMAIN booking_items' :
                i > Len(booking_items) =>
                    \E m \in menu_items : /\ m.id = booking_items'[i].item_id
                                          /\ booking_items'[i].unit_price = m.price_per_serving

\* a catalog update leaves every stored line and total as it was
CatalogUpdateKeepsBookings ==
    menu_items' # menu_items => (bookings' = bookings /\ booking_items' = booking_items)

C2_OneActiveBookingPerDate ==
    \A i, j \in DOMAIN fBookings :
        (/\ i # j
         /\ fBookings[i].eventDate = fBookings[j].eventDate
         /\ fBookings[i].bookingStatus # "cancelled")
        => fBookings[j].bookingStatus = "cancelled"

FileRequiredFieldsPresent(req) ==
    /\ req.eventType # Missing /\ req.eventDate # Missing /\ req.eventVenue # Missing
    /\ req.numGuests # 0 /\ req.menuItemsSent /\ req.customerName # Missing
    /\ req.customerEmail # Missing

FileDateTaken(eventDate) ==
    \E i \in DOMAIN fBookings :
        fBookings[i].eventDate = eventDate /\ fBookings[i].bookingStatus # "cancelled"

FileAcceptedAsPending(req) ==
    /\ res'.status = 201
    /\ Len(fBookings') = Len(fBookings) + 1
    /\ SubSeq(fBookings', 1, Len(fBookings)) = fBookings
    /\ fBookings'[Len(fBookings')].bookingStatus = "pending"
    /\ fBookings'[Len(fBookings')].eventDate = req.eventDate

FileRejectedAsConflict ==
    res'.status = 409 /\ fBookings' = fBookings

FileItemsInMenu(req) ==
    \A l \in Range(req.menuItems) : \E m \in Range(sampleMenu) : m.id = l.itemId

SqlDateTaken(eventDate) ==
    \E b \in bookings : b.event_date = eventDate /\ b.booking_status # "cancelled"

\* C4: in the relational variant a createBooking whose date is held by a
\* booking that is not cancelled is answered 409 and inserts no booking row
\* (requests the validators turn away with 400 set aside).
C4_SqlDateConflictRejected ==
    [][\A caller \in Callers :
        \A body \in SqlBookingBodies({"2026-12-24", "someday"}, TotalsSqlOrders) :
            (SqlCreateBooking(caller, body) /\ SqlDateTaken(body.eventDate)
                /\ res'.status # 400) =>
                    (res'.status = 409 /\ bookings' = bookings)]_vars

ReceiptOps == {"POST /api/receipts/generate", "POST /receipts/generate"}

\* the total of the booking a returned receipt was generated for
ReceiptBookingTotals(r) ==
    IF backend = "file"
    THEN { fBookings[i].totalAmount : i \in { j \in DOMAIN fBookings :
                                                fBookings[j].bookingId = r.bookingId } }
    ELSE { b.total_amount : b \in { x \in bookings :
                \E row \in receipts : row.id = r.id /\ row.booking_id = x.id } }

\* C5: the receipt generateReceipt returns carries the booking's total as
\* subtotal, 12% of it as taxAmount, and their sum as total (both variants).
C5_ReceiptTotals ==
    (res.op \in ReceiptOps /\ res.status = 201) =>
        \A r \in res.body :
            /\ r.subtotal \in ReceiptBookingTotals(r)
            /\ "taxAmount" \in DOMAIN r
            /\ r.taxAmount * 100 = r.subtotal * TaxRatePct
            /\ r.totalAmount = r.subtotal + r.taxAmount

ReceiptNumberValue(receiptNumber) == parseInt(substring1(receiptNumber))

\* C6: the number of each receipt generated is greater than the number of
\* every receipt generated before it: against the stored receipts in the two
\* servers, against the numbers the counter has handed out in the page.
C6_ReceiptNumbersIncrease ==
    [][/\ (res'.op = "POST /api/receipts/generate" /\ fReceipts' # fReceipts) =>
            \A r \in res'.body : \A i \in DOMAIN fReceipts :
                ReceiptNumberValue(r.receiptNumber) > ReceiptNumberValue(fReceipts[i].receiptNumber)
       /\ (res'.op = "POST /receipts/generate" /\ receipts' # receipts) =>
            \A r \in res'.body : \A row \in receipts :
                ReceiptNumberValue(r.receiptNumber) > ReceiptNumberValue(row.receipt_number)
       /\ (res'.op = "generateReceiptNumber" /\ cIssued' # cIssued) =>
            \A r \in res'.body : \A n \in cIssued : ReceiptNumberValue(r) > n]_vars

\* C7: every booking is referenced by at most one stored receipt.
C7_OneReceiptPerBooking ==
    /\ \A i, j \in DOMAIN fReceipts :
            fReceipts[i].bookingId = fReceipts[j].bookingId => i = j
    /\ \A r1, r2 \in receipts : r1.booking_id = r2.booking_id => r1 = r2

MenuItemReferenced(id) == \E i \in DOMAIN booking_items : booking_items[i].item_id = id

C9_AsClaimed ==
    [][/\ \A req \in FileRegisterBodies :
            (FileRegister(req) /\ \E u \in Range(fUsers) : u.email = req.email) =>
                (res'.status = 409 /\ fUsers' = fUsers)
       /\ \A req \in SqlRegisterBodies :
            (SqlRegister(req) /\ \E u \in users : u.email = req.email) =>
                (res'.status = 409 /\ users' = users)]_vars

FileRegisterWellFormed(req) ==
    /\ req.firstName # Missing /\ req.lastName # Missing /\ req.email # Missing
    /\ req.password # Missing /\ req.password = req.repeatPassword
    /\ Len(req.password) >= MinPasswordLength

\* C9 amended: a register whose email is the email of a stored user stores
\* nothing; it is answered 409 when the request passes the handler's input
\* validation, whatever the username, and 400 when it does not.
C9_DuplicateEmailRejected ==
    [][/\ \A req \in FileRegisterBodies :
            (FileRegister(req) /\ \E u \in Range(fUsers) : u.email = req.email) =>
                /\ fUsers' = fUsers
                /\ res'.status = IF FileRegisterWellFormed(req) THEN 409 ELSE 400
       /\ \A req \in SqlRegisterBodies :
            (SqlRegister(req) /\ \E u \in users : u.email = normalizeEmail(req.email)) =>
                /\ users' = users
                /\ res'.status = IF SqlRegisterValid(req) THEN 409 ELSE 400]_vars

\* a register refused for its email, under a username no stored user has
C9_Witness ==
    /\ res.op = "POST /auth/register" /\ res.status = 409
    /\ \A u \in users : u.username # res.req.username
    /\ \E u \in users : u.email = normalizeEmail(res.req.email) /\ u.user_type = "customer"

\* C10: in the relational variant a caller who is not an administrator is
\* answered 404 or 403, with no booking, for a booking another user owns, and
\* lists only bookings of their own; an administrator gets any stored booking.
C10_OwnBookingsOnly ==
    [][/\ \A caller \in Callers, id \in 1..MaxBookings :
            SqlGetBooking(caller, id) =>
                /\ (caller.userType # "admin"
                        /\ \E b \in RowsById(bookings, id) : b.user_id # caller.id) =>
                            (res'.status \in {403, 404} /\ res'.body = {})
                /\ (caller.userType = "admin" /\ RowsById(bookings, id) # {}) =>
                            (res'.status = 200 /\ res'.body = RowsById(bookings, id))
       /\ \A caller \in Callers :
            (SqlListBookings(caller) /\ caller.userType # "admin") =>
                \A b \in res'.body : b.user_id = caller.id]_vars

\* a customer turned away from a stored booking of another customer
C10_Witness ==
    /\ res.op = "GET /bookings/:id" /\ res.status = 404
    /\ res.req.caller.userType = "customer"
    /\ \E b \in bookings :
        /\ b.id = res.req.id /\ b.user_id # res.req.caller.id
        /\ \E u \in users : u.id = b.user_id /\ u.user_type = "customer"

\* C11: the relational createBooking stores a booking and all of its lines
\* as one atomic unit: in every state that can be observed, every stored
\* booking has the lines whose prices add up to its total_amount
C11_BookingStoredWithItsLines ==
    \A b \in bookings : RowSum(RowsOfBooking(b.id)) = b.total_amount

\* C12: in both variants createBooking answers 400 and stores nothing when
\* the list of lines is empty or some line's itemId is not an available item
\* of the menu
C12_InvalidLinesRejected ==
    [][/\ \A req \in FileBookingBodies(TotalsFileOrders) :
            ( /\ FileCreateBooking(req)
              /\ \/ req.menuItems = <<>>
                 \/ \E i \in DOMAIN req.menuItems : ~FileMenuFound(req.menuItems[i].itemId) )
            => (res'.status = 400 /\ fBookings' = fBookings)
       /\ \A caller \in Callers, body \in SqlBookingBodies({"2026-12-24"}, TotalsSqlOrders) :
            ( /\ SqlCreateBooking(caller, body)
              /\ \/ body.menuItems = <<>>
                 \/ \E i \in DOMAIN body.menuItems :
                        SqlAvailableItems(menu_items, body.menuItems[i].itemId) = {} )
            => (res'.status = 400 /\ bookings' = bookings /\ booking_items' = booking_items)
      ]_vars

C14_NoLineWithoutBooking ==
    /\ \A i \in DOMAIN booking_items :
          \E b \in bookings : b.id = booking_items[i].booking_id
    /\ (res.op = "DELETE /bookings/:id" /\ res.status = 200) =>
          /\ RowsById(bookings, res.req.id) = {}
          /\ RowsOfBooking(res.req.id) = <<>>

LoginEmailKnown ==
    IF backend = "file" THEN \E u \in Range(fUsers) : u.email = res'.req.email
    ELSE \E u \in users : u.email = normalizeEmail(res'.req.email)

LoginAccountActive ==
    IF backend = "file" THEN TRUE
    ELSE \E u \in users : u.email = normalizeEmail(res'.req.email) /\ u.is_active

LoginPasswordMatches ==
    IF backend = "file"
    THEN \E u \in Range(fUsers) : u.email = res'.req.email /\ u.password = res'.req.password
    ELSE \E u \in users : /\ u.email = normalizeEmail(res'.req.email)
                          /\ bcryptCompare(res'.req.password, u.password_hash)

LoginStep == res'.op \in {"POST /api/auth/login", "POST /auth/login"}

\* C16 as stated: login answers 401 with no user and no credential when
\* the email is unknown, the account is deactivated or the password does not
\* match, and succeeds only when all three checks pass
C16_AsClaimed ==
    [][LoginStep =>
        /\ ~(LoginEmailKnown /\ LoginAccountActive /\ LoginPasswordMatches)
              => (res'.status = 401 /\ res'.body = {})
        /\ res'.status = 200 => (LoginEmailKnown /\ LoginAccountActive /\ LoginPasswordMatches)
      ]_vars

\* the input checks that come before the three: both fields present
\* (file-backed); a well-formed email and a password of six characters or
\* more (relational)
LoginInputAccepted ==
    IF backend = "file" THEN res'.req.email # Missing /\ res'.req.password # Missing
    ELSE isEmail(res'.req.email) /\ Len(res'.req.password) >= MinPasswordLength

\* C16, amended: when the email is unknown, the account is deactivated or
\* the password does not match, login returns no user and no credential and
\* answers 401 if the request passes the input checks and 400 if it does
\* not; it answers 200 exactly when the input checks and all three checks
\* pass, and then returns the user without the password
C16_LoginChecks ==
    [][LoginStep =>
        /\ ~(LoginEmailKnown /\ LoginAccountActive /\ LoginPasswordMatches)
              => /\ res'.body = {}
                 /\ res'.status = IF LoginInputAccepted THEN 401 ELSE 400
        /\ res'.status = 200 <=>
              (LoginInputAccepted /\ LoginEmailKnown /\ LoginAccountActive /\ LoginPasswordMatches)
        /\ res'.status = 200 =>
              /\ res'.body # {}
              /\ \A answer \in res'.body :
                    DOMAIN answer.user \cap {"password", "password_hash"} = {}
        /\ UNCHANGED <<fUsers, users>>
      ]_vars

\* a login with the right password has been refused because an administrator
\* deactivated the account
C16_Witness ==
    /\ res.op = "POST /auth/login"
    /\ res.status = 401
    /\ \E u \in users : /\ u.email = normalizeEmail(res.req.email)
                        /\ bcryptCompare(res.req.password, u.password_hash)
                        /\ ~u.is_active
                        /\ u.user_type = "customer"

\* a respond request that reaches an existing message
FileRespondApplies(id, text) ==
    FileRespond(id, text) /\ text # <<>> /\ FileMessageIndex(fMessages, id) # {}

SqlRespondApplies(caller, id, text) ==
    SqlRespond(caller, id, text) /\ text # <<>> /\ requireAdmin(caller)
        /\ RowsById(messages, id) # {}

\* what respond leaves of the other messages, and of the message's other fields
FileRespondTouchesOnly(id) ==
    /\ DOMAIN fMessages' = DOMAIN fMessages
    /\ \A i \in DOMAIN fMessages :
          IF fMessages[i].id = id
          THEN /\ fMessages'[i].messageStatus = "replied"
               /\ fMessages'[i].updatedAt = now
               /\ \A k \in DOMAIN fMessages[i] \ {"adminResponse", "messageStatus", "updatedAt"} :
                      fMessages'[i][k] = fMessages[i][k]
          ELSE fMessages'[i] = fMessages[i]

SqlRespondTouchesOnly(id) ==
    /\ { m \in messages' : m.id # id } = { m \in messages : m.id # id }
    /\ Cardinality(RowsById(messages', id)) = 1
    /\ \A m \in RowsById(messages', id) :
          /\ m.message_status = "replied"
          /\ m.updated_at = now
          /\ \A old \in RowsById(messages, id) :
                /\ m.user_id = old.user_id
                /\ m.subject = old.subject
                /\ m.message_content = old.message_content

\* C17 as stated: respond(messageId, text) on an existing message stores
\* text as its adminResponse, sets its status to 'replied' whatever it
\* was, stamps its update time and changes no other message
C17_AsClaimed ==
    [][/\ \A id \in 1..MaxMessages, text \in RespondTexts :
            FileRespondApplies(id, text) =>
                /\ FileRespondTouchesOnly(id)
                /\ \A i \in FileMessageIndex(fMessages, id) : fMessages'[i].adminResponse = text
       /\ \A caller \in Callers, id \in 1..MaxMessages, text \in RespondTexts :
            SqlRespondApplies(caller, id, text) =>
                /\ SqlRespondTouchesOnly(id)
                /\ \A m \in RowsById(messages', id) : m.admin_response = text
      ]_vars

\* C17, amended: respond on an existing message stores as its adminResponse
\* the text as sent (file-backed) or the text trimmed and HTML-escaped
\* (relational), sets its status to 'replied' whatever it was, stamps its
\* update time and changes no other message
C17_RespondStores ==
    [][/\ \A id \in 1..MaxMessages, text \in RespondTexts :
            FileRespondApplies(id, text) =>
                /\ FileRespondTouchesOnly(id)
                /\ \A i \in FileMessageIndex(fMessages, id) : fMessages'[i].adminResponse = text
       /\ \A caller \in Callers, id \in 1..MaxMessages, text \in RespondTexts :
            SqlRespondApplies(caller, id, text) =>
                /\ SqlRespondTouchesOnly(id)
                /\ \A m \in RowsById(messages', id) : m.admin_response = escape(trim(text))
      ]_vars

\* an administrator has answered a message " <b>": it is 'replied', holds
\* "&lt;b&gt;" and carries a later time stamp, next to a message that is
\* still 'read' and unanswered
C17_Witness ==
    /\ res.op = "POST /messages/admin/:id/respond"
    /\ res.status = 200
    /\ \E m \in messages :
          /\ m.message_status = "replied"
          /\ m.admin_response = <<"&", "l", "t", ";", "b", "&", "g", "t", ";">>
          /\ m.updated_at = now
          /\ now > InitialClock
    /\ \E m \in messages : m.message_status = "read" /\ m.admin_response = NullText

RECURSIVE PaidTotal(_)
PaidTotal(rows) ==
    IF rows = {} THEN 0
    ELSE LET r == CHOOSE x \in rows : TRUE
         IN r.subtotal + TaxOf(r.subtotal) + PaidTotal(rows \ {r})

\* C19: the dashboard's totalRevenue is the sum of the total amounts of
\* exactly the stored receipts whose payment status is 'paid'
C19_RevenueIsPaidTotal ==
    /\ (res.op = "GET /api/admin/dashboard") =>
          \A d \in res.body : d.totalRevenue =
              PaidTotal({ fReceipts[i] : i \in { j \in DOMAIN fReceipts :
                                                  fReceipts[j].paymentStatus = "paid" } })
    /\ (res.op = "GET /admin/dashboard" /\ res.status = 200) =>
          \A d \in res.body : d.totalRevenue =
              PaidTotal({ r \in receipts : r.payment_status = "paid" })

\* C20: a file-backed write request whose write to the entity file fails
\* is not answered with a success status: booking creation, booking status
\* update, receipt generation, message creation, respond and message status
\* update answer 500 when writeData fails
C20_WriteFailureSurfaced ==
    [][~diskWritable =>
        /\ \A req \in StorageBookingBodies :
              (FileCreateBooking(req) /\ FileCreateBookingStatus(fBookings, req) = 201)
                  => res'.status = 500
        /\ \A id \in 1..MaxBookings :
              (FilePatchBookingStatus(id, "cancelled") /\ FileBookingIndex(fBookings, id) # 0)
                  => res'.status = 500
        /\ \A body \in StorageReceiptBodies :
              ( /\ FileGenerateReceipt(body.bookingId, Missing, body.paymentStatus)
                /\ FileBookingIndex(fBookings, body.bookingId) # 0 )
                  => res'.status = 500
        /\ \A req \in RespondMessageBodies : FileCreateMessage(req) => res'.status = 500
        /\ \A id \in 1..MaxMessages :
              (FileRespond(id, <<"o", "k">>) /\ FileMessageIndex(fMessages, id) # {})
                  => res'.status = 500
        /\ \A id \in 1..MaxMessages :
              (FilePatchMessageStatus(id, "read") /\ FileMessageIndex(fMessages, id) # {})
                  => res'.status = 500
      ]_vars

\* the sub-query whose callback a step runs
DashboardStepKeys == dash.pending \ dash'.pending

\* C21: whatever the order in which the eight sub-query callbacks of the
\* relational dashboard complete and whichever of them fail, the response
\* is sent exactly once, by the last callback, and holds a value for every
\* statistic: the query's result, or 0 (an empty list for recentBookings and
\* monthlyRevenue) where the query failed
C21_FanIn ==
    [][(dash.phase = "running" /\ dash'.completed # dash.completed) =>
        /\ Cardinality(DashboardStepKeys) = 1
        /\ dash'.completed = Cardinality(DashboardKeys \ dash'.pending)
        /\ \A k \in DashboardStepKeys :
              /\ k \notin DOMAIN dash.results
              /\ IF k \in dash'.failed
                 THEN IF k \in {"recentBookings", "monthlyRevenue"}
                      THEN dash'.results[k] = {}
                      ELSE dash'.results[k] = 0
                 ELSE dash'.results[k] = DashboardQuery(k)
        /\ \A k \in DOMAIN dash.results : dash'.results[k] = dash.results[k]
        /\ IF dash'.pending = {}
           THEN /\ dash.sent = 0 /\ dash'.sent = 1
                /\ res'.op = "GET /admin/dashboard" /\ res'.status = 200
                /\ res'.body = {dash'.results}
                /\ DOMAIN dash'.results = DashboardKeys
           ELSE dash'.sent = 0 /\ res' = res
      ]_vars

\* the response has gone out after all eight callbacks: some sub-queries
\* failed, one that succeeded counted a menu item
C21_Witness ==
    /\ dash.phase = "done"
    /\ dash.sent = 1
    /\ dash.completed = 8
    /\ res.op = "GET /admin/dashboard" /\ res.status = 200
    /\ {"totalUsers", "recentBookings"} \subseteq dash.failed
    /\ "totalMenuItems" \notin dash.failed
    /\ \A answer \in res.body : answer["totalMenuItems"] >= 1 /\ answer["totalUsers"] = 0

\* the booking a request was answered 201 for is in bookings.json
FileBookingKept(stored, r) ==
    \E i \in DOMAIN stored :
        /\ stored[i].id = r.id
        /\ stored[i].eventDate = r.body.eventDate
        /\ stored[i].items = FileBookingItems(r.body.menuItems)

\* two requests that waited at the same time and were both answered 201
FileRacedPairs ==
    { pair \in inFlight \X inFlight :
        /\ pair[1].client # pair[2].client
        /\ pair[1].status = 201 /\ pair[2].status = 201
        /\ pair[1].written = pair[2].written }

C23_StoredReceiptRow ==
    \A r \in receipts :
        /\ r.payment_status \in PaymentStatuses
        /\ \E b \in RowsById(bookings, r.booking_id) : r.subtotal = b.total_amount
        /\ r.tax_rate = TaxRatePct
        /\ r.tax_amount = TaxOf(r.subtotal)
        /\ r.total_amount = r.subtotal + r.tax_amount

\* C24: the status of every stored booking, file-backed or relational, is
\* one of pending, confirmed, cancelled and completed, whatever status
\* updates were requested
C24_BookingStatusValid ==
    /\ \A i \in DOMAIN fBookings : fBookings[i].bookingStatus \in BookingStatuses
    /\ \A b \in bookings : b.booking_status \in BookingStatuses

\* the step is a status update of the file-backed / of the relational inbox
FileStatusUpdateStep == res'.op = "PATCH /api/messages/:id/status"
SqlStatusUpdateStep == res'.op = "PATCH /messages/admin/:id/status"

\* C25: a stored message's status is always one of unread, read, replied; a
\* new message is stored as 'unread' with no admin response; a status update
\* to a value outside the three is refused with 400 and changes nothing; one
\* to a value inside them is applied to the message of that id whatever its
\* current status, and to no other
C25_MessageStatus ==
    [][/\ \A i \in DOMAIN fMessages' :
             fMessages'[i].messageStatus \in {"unread", "read", "replied"}
       /\ \A m \in messages' : m.message_status \in {"unread", "read", "replied"}
       /\ \A i \in DOMAIN fMessages' \ DOMAIN fMessages :
             fMessages'[i].messageStatus = "unread" /\ fMessages'[i].adminResponse = <<>>
       /\ \A m \in messages' :
             (\A old \in messages : old.id # m.id) =>
                 m.message_status = "unread" /\ m.admin_response = NullText
       /\ FileStatusUpdateStep =>
             IF res'.req.status \notin {"unread", "read", "replied"}
             THEN res'.status = 400 /\ fMessages' = fMessages
             ELSE /\ DOMAIN fMessages' = DOMAIN fMessages
                  /\ \A i \in DOMAIN fMessages :
                        IF fMessages[i].id = res'.req.id
                        THEN /\ res'.status = 200
                             /\ fMessages'[i].messageStatus = res'.req.status
                             /\ fMessages'[i].adminResponse = fMessages[i].adminResponse
                        ELSE fMessages'[i] = fMessages[i]
       /\ (SqlStatusUpdateStep /\ res'.req.caller.userType = "admin") =>
             IF res'.req.status \notin {"unread", "read", "replied"}
             THEN res'.status = 400 /\ messages' = messages
             ELSE /\ res'.status = 200
                  /\ { m.id : m \in messages' } = { m.id : m \in messages }
                  /\ \A m \in messages : \E n \in messages' :
                        /\ n.id = m.id
                        /\ IF m.id = res'.req.id
                           THEN /\ n.message_status = res'.req.status
                                /\ n.admin_response = m.admin_response
                           ELSE n = m
      ]_vars

\* the administrator has set a message that was answered back to 'unread'
C25_Witness ==
    /\ res.op = "PATCH /messages/admin/:id/status"
    /\ res.status = 200
    /\ res.req.status = "unread"
    /\ \E m \in messages :
          /\ m.id = res.req.id
          /\ m.message_status = "unread"
          /\ m.admin_response = <<"o", "k">>

\* C26: no two stored users have the same email and no two have the same
\* username, in users.json as in the users table
C26_UniqueIdentity ==
    /\ \A i, j \in DOMAIN fUsers :
          i # j => fUsers[i].email # fUsers[j].email /\ fUsers[i].username # fUsers[j].username
    /\ \A u, v \in users :
          u.id # v.id => u.email # v.email /\ u.username # v.username

\* C29: no register, login, profile-update, change-password or
\* forgot-password request changes the role of a stored user, and a user
\* these requests create has the role 'customer'
C29_RoleNeverWritten ==
    [][/\ DOMAIN fUsers \subseteq DOMAIN fUsers'
       /\ \A i \in DOMAIN fUsers : fUsers'[i].userType = fUsers[i].userType
       /\ \A i \in DOMAIN fUsers' \ DOMAIN fUsers : fUsers'[i].userType = "customer"
       /\ \A u \in users : \E v \in users' : v.id = u.id /\ v.user_type = u.user_type
       /\ \A v \in users' : (\A u \in users : u.id # v.id) => v.user_type = "customer"
      ]_vars

\* a user who registered with userType 'admin' in the body, has renamed
\* the account with the same field in the body and has changed the password
\* is stored as a customer
C29_Witness ==
    /\ res.op = "POST /api/auth/change-password"
    /\ res.status = 200
    /\ \E i \in DOMAIN fUsers :
          /\ fUsers[i].email = res.req.email
          /\ fUsers[i].username = "annie"
          /\ fUsers[i].password = "hunter22"
          /\ fUsers[i].userType = "customer"

\* the steps of the two change-password routes, and the user they are about
FileChangePasswordStep ==
    /\ res'.op = "POST /api/auth/change-password"
    /\ FileUserIndex(fUsers, res'.req.email) # 0
SqlChangePasswordStep == res'.op = "POST /auth/change-password"
FileStoredPassword(stored, email) == stored[FileUserIndex(stored, email)].password

\* C30 as claimed: a change-password request whose current password does not
\* match the stored credential is answered 401 and changes no credential
C30_AsClaimed ==
    [][/\ ( /\ FileChangePasswordStep
            /\ FileStoredPassword(fUsers, res'.req.email) # res'.req.currentPassword ) =>
              res'.status = 401 /\ fUsers' = fUsers
       /\ SqlChangePasswordStep =>
             \A u \in RowsById(users, res'.req.caller.id) :
                 u.password_hash # bcryptHash(res'.req.body.currentPassword) =>
                     res'.status = 401 /\ users' = users
      ]_vars

\* C30: a change-password request whose current password does not match the
\* stored credential changes no credential and is answered 401 if it passes
\* the input checks of the handler, 400 if not; after a successful change to
\* a different new password, login with the same email answers 200 with the
\* new password and 401 with the old one
C30_ChangePassword ==
    [][/\ FileChangePasswordStep =>
             LET req == res'.req
                 inputOk == Len(req.newPassword) >= 6
             IN IF FileStoredPassword(fUsers, req.email) # req.currentPassword
                THEN /\ fUsers' = fUsers
                     /\ res'.status = IF inputOk THEN 401 ELSE 400
                ELSE (res'.status = 200 /\ req.newPassword # req.currentPassword) =>
                        /\ FileLoginStatus(fUsers', [email |-> req.email,
                                                     password |-> req.newPassword]) = 200
                        /\ FileLoginStatus(fUsers', [email |-> req.email,
                                                     password |-> req.currentPassword]) = 401
       /\ SqlChangePasswordStep =>
             \A u \in RowsById(users, res'.req.caller.id) :
                 LET body == res'.req.body
                     inputOk == Len(body.currentPassword) >= 6 /\ Len(body.newPassword) >= 6
                 IN IF u.password_hash # bcryptHash(body.currentPassword)
                    THEN /\ users' = users
                         /\ res'.status = IF inputOk THEN 401 ELSE 400
                    ELSE (res'.status = 200 /\ body.newPassword # body.currentPassword) =>
                            /\ SqlLoginStatus(users', [email |-> u.email,
                                                       password |-> body.newPassword]) = 200
                            /\ SqlLoginStatus(users', [email |-> u.email,
                                                       password |-> body.currentPassword]) = 401
      ]_vars

\* a relational user has changed the password to a different one and can
\* log in with it
C30_Witness ==
    /\ res.op = "POST /auth/change-password"
    /\ res.status = 200
    /\ res.req.body.newPassword # res.req.body.currentPassword
    /\ \E u \in RowsById(users, res.req.caller.id) :
          /\ u.password_hash = bcryptHash(res.req.body.newPassword)
          /\ SqlLoginStatus(users, [email |-> u.email,
                                    password |-> res.req.body.newPassword]) = 200

\* the browser holds no session: no current user, no token, neither key
LoggedOut ==
    /\ cAuth.currentUser = {}
    /\ cAuth.token = {}
    /\ cAuth.dsis_user = {}
    /\ cAuth.dsis_token = {}

\* C27: a confirmed logout always ends with currentUser null and the keys
\* dsis_user and dsis_token removed from localStorage, whether the logout
\* request succeeded or failed, and no step of it changes what the server
\* stores; a declined logout sends no request and leaves currentUser, the
\* token and localStorage as they were
C27_LogoutClearsSession ==
    /\ (cAuth.logout = "awaiting") ~> (cAuth.logout # "awaiting" /\ LoggedOut)
    /\ [][/\ (cAuth.logout = "awaiting" /\ cAuth'.logout # "awaiting") =>
                /\ cAuth'.logout \in {"done", "done after error"}
                /\ cAuth'.currentUser = {} /\ cAuth'.token = {}
                /\ cAuth'.dsis_user = {} /\ cAuth'.dsis_token = {}
          /\ (cAuth' # cAuth /\ (cAuth.logout = "awaiting"
                                  \/ cAuth'.logout \in {"awaiting", "declined"})) =>
                UNCHANGED <<fileVars, sqlVars, msgVars>>
          /\ (cAuth'.logout = "declined" /\ cAuth' # cAuth) =>
                /\ cAuth' = [cAuth EXCEPT !.logout = "declined"]
                /\ res' = res
         ]_vars

\* a user who was logged in with a token has confirmed the logout, the
\* request has failed, and the session is gone all the same
C27_Witness ==
    /\ cAuth.logout = "done after error"
    /\ LoggedOut
    /\ res.op = "login()" /\ res.status = 200
    /\ backend = "sql"

\* no two records of the stored array have the same id
IdsDistinct(stored) == \A i, j \in DOMAIN stored : i # j => stored[i].id # stored[j].id

\* C28: after any sequence of register, create booking, generate receipt,
\* send message and offer create and delete requests, no two records of the
\* same entity file have the same id
C28_IdsDistinct ==
    /\ IdsDistinct(fUsers)
    /\ IdsDistinct(fBookings)
    /\ IdsDistinct(fReceipts)
    /\ IdsDistinct(fMessages)
    /\ IdsDistinct(fOffers)

\* an offer was created after an older one had been deleted, next to a new
\* user, two bookings, a receipt and a message
C28_Witness ==
    /\ Len(fOffers) = 2 /\ fOffers[1].id = 2 /\ fOffers[2].id = 3
    /\ res.op = "POST /api/offers" /\ res.status = 201
    /\ Len(fUsers) = 3
    /\ Len(fBookings) = 2
    /\ Len(fReceipts) >= 1
    /\ Len(fMessages) >= 1

====
